---- MODULE Spec2Model ----
(***************************************************************************)
(* Verification model of the Jarvis perception and orchestration core.     *)
(*                                                                         *)
(*   SpecBridge : server/bridge.py     Bridge (observer set, broadcast)    *)
(*   SpecOrch   : orchestrator.py      run_orchestrator main loop          *)
(*   SpecChat   : llm/ollama_client.py chat / chat_with_tools OOM ladder   *)
(*   SpecTurn   : orchestrator.py      _run_one_turn_sync tool loop        *)
(*   SpecAmbient: vision/ambient.py    AmbientAwareness state machine      *)
(*   SpecShared : vision/shared.py     lazily initialised singletons       *)
(*   SpecCamera : vision/shared.py     frames, inference, release          *)
(*   SpecTrajectory: vision/trajectory.py  TrajectoryPredictor             *)
(*   SpecEgo    : vision/ego_motion.py estimate_ego_motion and its cache   *)
(*   SpecReminders: utils/reminders.py, server/app.py  reminders CRUD      *)
(*                                                                         *)
(* Every specification constrains all variables; the variables of the      *)
(* components it does not exercise stay at their initial values.           *)
(***************************************************************************)
EXTENDS Integers, Sequences, FiniteSets, TLC

VARIABLES
    \* ---- Bridge (server/bridge.py) ----
    clients,        \* Bridge._clients
    loopSet,        \* Bridge._loop is set and open
    scheduled,      \* broadcasts posted with call_soon_threadsafe, not yet started
    bstate,         \* per broadcast: "new" | "sending" (awaiting gather)
    bdata,          \* per broadcast: the dict passed to broadcast()
    btargets,       \* per broadcast: the snapshot list(self._clients)
    bpending,       \* per broadcast: _send_json coroutines not yet finished
    braised,        \* per broadcast: observers whose ws.send_json raised
    bdeliv,         \* per broadcast and observer: times ws.send_json accepted it
    delivered,      \* per observer: the last two messages ws.send_json accepted
                    \* since the observer was last added or removed
    evicted,        \* history: observers whose send raised, not re-added since
    spurious,       \* history: observers a send that did not raise took out of clients
    bskipped,       \* per broadcast in flight: observers that were evicted and not
                    \* added again when its snapshot was taken
    step_called,    \* history: send_thinking_step has been called
    step_due,       \* history: observers connected at the first such call and ever since
    \* ---- Orchestrator (orchestrator.py) ----
    pc,             \* position of run_orchestrator
    bridge,         \* the bridge argument of run_orchestrator: "Bridge" | "None"
    query_queue,    \* asyncio.Queue shared with the wake listener and the bridge
    query,          \* the item dequeued for the current turn
    attempt,        \* loop variable of the retry loop
    final,          \* reply of the current turn
    short_term,     \* short-term history
    now,            \* time.monotonic()
    idle_since,     \* idle timer
    sent,           \* messages the orchestrator handed to bridge / status_cb
    enqLog,         \* history: every item ever enqueued, in order
    processed,      \* history: every item dequeued, in order
    phases,         \* history: phases the current turn has completed
    attemptLog,     \* history: outcome of each attempt of the current turn
    nturns,         \* history: number of items whose handling has completed
    lastTurn,       \* history: summary of the last completed handling
    stBefore,       \* history: short_term when the current item was dequeued
    lastScan,       \* history: the last proactive scan and the start of the one before
    \* ---- Chat client (llm/ollama_client.py) ----
    cpc,            \* position of the chat call
    cfn,            \* "chat" | "chat_with_tools"
    creq,           \* num_ctx argument
    ccap,           \* settings.OLLAMA_NUM_CTX_MAX
    ctries,         \* remaining context sizes of the for loop
    clog,           \* history: one record per HTTP attempt
    crecov,         \* history: number of _recover_from_oom calls
    cresult         \* returned value

VARIABLES
    \* ---- One turn (orchestrator.py, _run_one_turn_sync) ----
    tpc,            \* position of _run_one_turn_sync
    max_calls,      \* settings.MAX_TOOL_CALLS_PER_TURN
    max_rounds,     \* max_rounds
    round,          \* iterations of the for loop started (chat_with_tools calls)
    content,        \* content of the last response
    tool_calls,     \* tool calls of the current round still to execute
    final_answer,   \* final_answer
    treply,         \* returned value
    returned,       \* history: tool calls the last response carried
    kept,           \* history: tool calls of the last response after the slice
    executed,       \* history: run_tool calls of the turn
    sent_results    \* history: tool results in the messages of the last chat request

VARIABLES
    \* ---- Ambient awareness (vision/ambient.py) ----
    amb_state,            \* AmbientAwareness._state
    state_entered_at,     \* _state_entered_at
    last_thermal_check,   \* _last_thermal_check
    was_ego_moving,       \* _was_ego_moving
    prev_mean_intensity,  \* _prev_mean_intensity
    flow_prev,            \* the flow estimator holds a previous frame
    anow,                 \* time.monotonic(), in ticks of 10 s
    first_call,           \* history: no check_frame since construction or reset()
    lastCall              \* history: the last check_frame call

VARIABLES
    \* ---- Shared singletons (vision/shared.py) ----
    initialised,    \* per resource: _camera_initialised, _yolo_initialised, ...
    handle,         \* per resource: <<_camera, none>>, <<_yolo_engine, _yolo_class_names>>, ...
    init_lock,      \* holder of _init_lock, or "free"
    spc,            \* per thread: position in its get_* call
    sres,           \* per thread: the resource of its call
    sbody,          \* per thread: statements of the locked initialisation still to run
    slast,          \* history, per thread: what its last call returned
    factory_calls,  \* history, per resource: calls of the factory
    returns,        \* history, per resource: the values get_* returned
    ncalls,         \* history: get_* calls started
    frame_lock,     \* holder of _frame_lock, or "free"
    inference_lock, \* holder of _inference_lock, or "free"
    sop,            \* per thread: the operation it runs, or ran last
    stodo,          \* per thread: statements of its running operation still to run
    slocal,         \* per thread: the locals cap, class_names and dets
    sstart,         \* history, per thread: when its get_camera began, the number of
                    \* open_camera calls, and whether the camera was released (flag
                    \* clear, no initialisation under way)
    sfail,          \* history, per thread: its operation began after a failed open, no release since
    open_failed,    \* history: the last camera initialisation ended with a failed open, no release since
    release_log,    \* history: the handles whose release() was called, in order
    nops            \* history: operations started

bridgeVars == <<clients, loopSet, scheduled, bstate, bdata, btargets,
                bpending, braised, bdeliv, delivered, evicted, spurious,
                bskipped, step_called, step_due>>

orchVars == <<pc, bridge, query_queue, query, attempt, final, short_term, now, idle_since,
              sent, enqLog, processed, phases, attemptLog, nturns, lastTurn, stBefore,
             lastScan>>

chatVars == <<cpc, cfn, creq, ccap, ctries, clog, crecov, cresult>>

turnVars == <<tpc, max_calls, max_rounds, round, content, tool_calls, final_answer,
              treply, returned, kept, executed, sent_results>>

\* The three components above, and the ones modelled after them.
coreVars == <<bridgeVars, orchVars, chatVars>>

ambientVars == <<amb_state, state_entered_at, last_thermal_check, was_ego_moving,
                 prev_mean_intensity, flow_prev, anow, first_call, lastCall>>

VARIABLES
    \* ---- Trajectory predictor (vision/trajectory.py) ----
    prev_velocities,   \* self._prev_velocities: track_id -> (vx, vy)
    trajectories,      \* the list predict_all returned last
    tracked_ids,       \* history: the track ids of the last predict_all call
    predict_calls      \* history: predict_all calls made

VARIABLES
    \* ---- Ego-motion estimator (vision/ego_motion.py) ----
    cache_result,       \* _ego_cache.result, or NoResult
    frames_remaining,   \* _ego_cache.frames_remaining
    cached_mean_mag,    \* _ego_cache._cached_mean_mag
    cache_threshold,    \* history: the motion_threshold of the call that stored the result
    lastEgo,            \* history: the last estimate_ego_motion call and its result
    ego_calls,          \* history: estimate_ego_motion calls made
    hits_since_store    \* history: calls served from the cache since the last store

VARIABLES
    \* ---- Reminders (utils/reminders.py, server/app.py) ----
    reminders,    \* the list stored in reminders.json
    lastReq       \* history: the last /api/reminders request and its response

opVars == <<frame_lock, inference_lock, sop, stodo, slocal, sstart, sfail, release_log, nops>>

sharedVars == <<initialised, handle, init_lock, spc, sres, sbody, slast, factory_calls,
                returns, ncalls, open_failed, opVars>>

trajectoryVars == <<prev_velocities, trajectories, tracked_ids, predict_calls>>

egoVars == <<cache_result, frames_remaining, cached_mean_mag, cache_threshold, lastEgo,
             ego_calls, hits_since_store>>

reminderVars == <<reminders, lastReq>>

VARIABLES
    \* ---- Proximity alerter (vision/proximity.py) ----
    last_alert_time,  \* _last_alert_time: zone -> time of the last alert, None when absent
    pnow,             \* time.monotonic()
    lastProx,         \* history: the last check_proximity call and what it returned
    alert_times,      \* history: per zone, the times of the alerts emitted
    suppressed_at,    \* history: per zone, the time of the last suppressed attempt
    prox_calls        \* history: check_proximity calls made

proximityVars == <<last_alert_time, pnow, lastProx, alert_times, suppressed_at, prox_calls>>

VARIABLES
    \* ---- Bluetooth auto-reconnect daemon (audio/bluetooth.py) ----
    bt_reconnect_stop,    \* _bt_reconnect_stop: the Event the global names, None before any
    bt_reconnect_thread,  \* _bt_reconnect_thread: the Thread the global names, or None
    event_set,            \* per Event created: its flag
    dpc,                  \* per Thread created: the position of its _daemon
    dwait,                \* per Thread: the Event object its running wait() was called on
    lastStart,            \* history: the last start_bt_auto_reconnect call
    outlived              \* history, per Thread: it passed a stop check with its own Event set

bluetoothVars == <<bt_reconnect_stop, bt_reconnect_thread, event_set, dpc, dwait, lastStart,
                   outlived>>

extVars == <<turnVars, ambientVars, sharedVars, trajectoryVars, egoVars, reminderVars,
            proximityVars, bluetoothVars>>

\* What the actions of one of the later components leave alone.
otherThanTurn == <<coreVars, ambientVars, sharedVars, trajectoryVars, egoVars, reminderVars,
                 proximityVars, bluetoothVars>>
otherThanAmbient == <<coreVars, turnVars, sharedVars, trajectoryVars, egoVars, reminderVars,
                 proximityVars, bluetoothVars>>
otherThanShared == <<coreVars, turnVars, ambientVars, trajectoryVars, egoVars, reminderVars,
                 proximityVars, bluetoothVars>>
otherThanTrajectory == <<coreVars, turnVars, ambientVars, sharedVars, egoVars, reminderVars,
                 proximityVars, bluetoothVars>>
otherThanEgo == <<coreVars, turnVars, ambientVars, sharedVars, trajectoryVars, reminderVars,
                 proximityVars, bluetoothVars>>
otherThanReminders == <<coreVars, turnVars, ambientVars, sharedVars, trajectoryVars, egoVars,
                 proximityVars, bluetoothVars>>
otherThanProximity == <<coreVars, turnVars, ambientVars, sharedVars, trajectoryVars, egoVars,
                 reminderVars, bluetoothVars>>
otherThanBluetooth == <<coreVars, turnVars, ambientVars, sharedVars, trajectoryVars, egoVars,
                 reminderVars, proximityVars>>

vars == <<coreVars, extVars>>

\* Python's None where a number is expected.
None == -1

(***************************************************************************)
(*                               BRIDGE                                    *)
(***************************************************************************)

\* Bound of the bridge model: broadcast() coroutines posted or in flight at a time.
MaxInFlight == 2

WS == {"ws1", "ws2"}
BIds == 1..MaxInFlight

NoData == [type |-> "none"]

\* Payloads built by the helpers.
StatusMsg(status) == [type |-> "status", status |-> status]

ReplyMsg(text) == [type |-> "reply", text |-> text]

TranscriptMsg(text, isFinal) ==
    [type |-> IF isFinal THEN "transcript_final" ELSE "transcript_interim",
     text |-> text]

ProactiveMsg(text) == [type |-> "proactive", text |-> text]

\* What ws.send_json receives from _send_json: the dict given to broadcast().
WireMessage(data) == data

\* The client set after _send_json(ws): the observer is dropped when the send raised.
SendJsonClients_NoEvict(cs, ws, raises) == cs

SendJsonClients(cs, ws, raises) == IF raises THEN cs \ {ws} ELSE cs

\* `targets = list(self._clients)`
Snapshot(cs) == cs

\* The last two messages an observer accepted, after one more.
Remember(log, m) == IF Len(log) < 2 THEN Append(log, m) ELSE <<log[2], m>>

InitBridge ==
    /\ clients = {}
    /\ loopSet = FALSE
    /\ scheduled = <<>>
    /\ bstate = [b \in BIds |-> "new"]
    /\ bdata = [b \in BIds |-> NoData]
    /\ btargets = [b \in BIds |-> {}]
    /\ bpending = [b \in BIds |-> {}]
    /\ braised = [b \in BIds |-> {}]
    /\ bdeliv = [b \in BIds |-> [w \in WS |-> 0]]
    /\ delivered = [w \in WS |-> <<>>]
    /\ evicted = {}
    /\ spurious = {}
    /\ bskipped = [b \in BIds |-> {}]
    /\ step_called = FALSE
    /\ step_due = {}

set_loop ==
    /\ loopSet = FALSE
    /\ loopSet' = TRUE
    /\ UNCHANGED <<clients, scheduled, bstate, bdata, btargets, bpending,
                   braised, bdeliv, delivered, evicted, spurious, bskipped,
                   step_called, step_due>>
    /\ UNCHANGED <<orchVars, chatVars, extVars>>

add_client ==
    /\ UNCHANGED <<orchVars, chatVars, extVars>>
    /\ \E ws \in WS :
           /\ ws \notin clients
           /\ clients' = clients \cup {ws}
           /\ evicted' = evicted \ {ws}
           /\ delivered' = [delivered EXCEPT ![ws] = <<>>]
           /\ UNCHANGED <<loopSet, scheduled, bstate, bdata, btargets, bpending,
                          braised, bdeliv, spurious, bskipped,
                   step_called, step_due>>

remove_client ==
    /\ UNCHANGED <<orchVars, chatVars, extVars>>
    /\ \E ws \in WS :
           /\ ws \in clients
           /\ clients' = clients \ {ws}
           /\ delivered' = [delivered EXCEPT ![ws] = <<>>]
           /\ UNCHANGED <<loopSet, scheduled, bstate, bdata, btargets, bpending,
                          braised, bdeliv, evicted, spurious, bskipped,
                   step_called>>
           /\ step_due' = step_due \ {ws}

InFlight == {b \in BIds : bstate[b] = "sending"}

FreeSlot == CHOOSE b \in BIds : bstate[b] = "new" /\ \A c \in BIds : c < b => bstate[c] # "new"

CanStart == Cardinality(InFlight) + Len(scheduled) < MaxInFlight

\* broadcast(data) up to its first suspension: snapshot under the lock, return at
\* once when there is no target, otherwise gather one _send_json per target.
Broadcast(data) ==
    /\ LET b == FreeSlot
           targets == Snapshot(clients)
       IN /\ IF targets = {}
                THEN UNCHANGED <<bstate, bdata, btargets, bpending, bskipped>>
                ELSE /\ bstate' = [bstate EXCEPT ![b] = "sending"]
                     /\ bdata' = [bdata EXCEPT ![b] = data]
                     /\ btargets' = [btargets EXCEPT ![b] = targets]
                     /\ bpending' = [bpending EXCEPT ![b] = targets]
                     /\ bskipped' = [bskipped EXCEPT ![b] = evicted]
    /\ UNCHANGED <<clients, loopSet, braised, bdeliv, delivered, evicted, spurious,
                   step_called, step_due>>

\* send_status(status): await self.broadcast({"type": "status", ...})
send_status ==
    /\ CanStart
    /\ Broadcast(StatusMsg("Listening"))
    /\ UNCHANGED scheduled
    /\ UNCHANGED <<orchVars, chatVars, extVars>>

\* broadcast_threadsafe(data) (here from send_status_threadsafe): nothing without an
\* open loop, otherwise the broadcast coroutine is posted to the loop.
broadcast_threadsafe ==
    /\ CanStart
    /\ scheduled' = IF loopSet THEN Append(scheduled, StatusMsg("Listening"))
                    ELSE scheduled
    /\ UNCHANGED <<clients, loopSet, bstate, bdata, btargets, bpending,
                   braised, bdeliv, delivered, evicted, spurious, bskipped,
                   step_called, step_due>>
    /\ UNCHANGED <<orchVars, chatVars, extVars>>

\* The loop runs the posted callbacks in the order they were posted.
RunScheduled ==
    /\ scheduled # <<>>
    /\ Broadcast(Head(scheduled))
    /\ scheduled' = Tail(scheduled)
    /\ UNCHANGED <<orchVars, chatVars, extVars>>

\* One _send_json(ws, data) of a broadcast in flight: ws.send_json either accepts the
\* message or raises, and the exception handler removes the observer.
_send_json ==
    /\ UNCHANGED <<orchVars, chatVars, extVars>>
    /\ \E b \in BIds : \E ws \in bpending[b] : \E raises \in BOOLEAN :
           /\ bstate[b] = "sending"
           /\ bpending' = [bpending EXCEPT ![b] = @ \ {ws}]
           /\ clients' = SendJsonClients(clients, ws, raises)
           /\ spurious' = spurious \cup (IF raises THEN {} ELSE clients \ clients')
           /\ step_due' = step_due \cap clients'
           /\ UNCHANGED step_called
           /\ IF raises
                 THEN /\ braised' = [braised EXCEPT ![b] = @ \cup {ws}]
                      /\ evicted' = evicted \cup {ws}
                      /\ delivered' = [delivered EXCEPT ![ws] = <<>>]
                      /\ UNCHANGED bdeliv
                 ELSE /\ delivered' = [delivered EXCEPT ![ws] =
                                         Remember(@, WireMessage(bdata[b]))]
                      /\ bdeliv' = [bdeliv EXCEPT ![b][ws] = @ + 1]
                      /\ UNCHANGED <<braised, evicted>>
           /\ UNCHANGED <<loopSet, scheduled, bstate, bdata, btargets,
                          bskipped>>

\* asyncio.gather resumes broadcast() when every _send_json has finished, and
\* broadcast() returns; its locals are gone.
BroadcastReturn ==
    /\ UNCHANGED <<orchVars, chatVars, extVars>>
    /\ \E b \in BIds :
           /\ bstate[b] = "sending"
           /\ bpending[b] = {}
           /\ bstate' = [bstate EXCEPT ![b] = "new"]
           /\ bdata' = [bdata EXCEPT ![b] = NoData]
           /\ btargets' = [btargets EXCEPT ![b] = {}]
           /\ braised' = [braised EXCEPT ![b] = {}]
           /\ bdeliv' = [bdeliv EXCEPT ![b] = [w \in WS |-> 0]]
           /\ bskipped' = [bskipped EXCEPT ![b] = {}]
           /\ UNCHANGED <<clients, loopSet, scheduled, bpending,
                          delivered, evicted, spurious,
                   step_called, step_due>>

\* await bridge.send_thinking_step(step, detail): the Bridge class defines no such
\* method, so the attribute lookup raises AttributeError and nothing is broadcast.
send_thinking_step ==
    /\ step_called' = TRUE
    /\ step_due' = IF step_called THEN step_due ELSE clients
    /\ UNCHANGED <<clients, loopSet, scheduled, bstate, bdata, btargets, bpending,
                   braised, bdeliv, delivered, evicted, spurious, bskipped>>
    /\ UNCHANGED <<orchVars, chatVars, extVars>>

NextBridge ==
    \/ send_thinking_step
    \/ set_loop
    \/ add_client
    \/ remove_client
    \/ send_status
    \/ broadcast_threadsafe
    \/ RunScheduled
    \/ _send_json
    \/ BroadcastReturn

(***************************************************************************)
(*                         CLAIMS: BRIDGE                                  *)
(***************************************************************************)

HasSeq(m) == "_seq" \in DOMAIN m /\ m["_seq"] \in Int

\* C1: every message delivered to an observer carries an integer _seq, and the _seq
\* values an observer receives are strictly increasing in delivery order.
C1_SeqStrictlyIncreasing ==
    \A ws \in WS :
        /\ \A i \in DOMAIN delivered[ws] : HasSeq(delivered[ws][i])
        /\ \A i \in DOMAIN delivered[ws] : \A j \in DOMAIN delivered[ws] :
               i < j => delivered[ws][i]["_seq"] < delivered[ws][j]["_seq"]

\* C2: for an observer that stays connected, each broadcast it receives has a _seq
\* exactly one greater than the previous broadcast's.
C2_SeqContiguous ==
    \A ws \in clients :
        Len(delivered[ws]) = 2 =>
            /\ HasSeq(delivered[ws][1]) /\ HasSeq(delivered[ws][2])
            /\ delivered[ws][2]["_seq"] = delivered[ws][1]["_seq"] + 1

\* C3: a send that raises removes exactly that observer; the other observers of the
\* snapshot receive the message once; an observer removed that way is in no later
\* snapshot until add_client is called for it, and broadcast never adds an observer.
C3_EvictsOnlyRaisers ==
    /\ evicted \cap clients = {}
    /\ spurious = {}
    /\ \A b \in InFlight :
           /\ btargets[b] \cap bskipped[b] = {}
           /\ braised[b] \subseteq btargets[b] \ bpending[b]
           /\ \A ws \in WS :
                  bdeliv[b][ws] =
                      IF ws \in (btargets[b] \ bpending[b]) \ braised[b] THEN 1 ELSE 0

\* A broadcast whose sends are over, one raised and one accepted, and a later
\* broadcast whose snapshot leaves the evicted observer out and reached the other.
C3_Witness ==
    \E b1 \in InFlight : \E b2 \in InFlight \ {b1} :
        /\ bpending[b1] = {}
        /\ braised[b1] # {}
        /\ btargets[b1] \ braised[b1] # {}
        /\ braised[b1] \subseteq evicted
        /\ braised[b1] \subseteq bskipped[b2]
        /\ btargets[b2] \cap braised[b1] = {}
        /\ \E ws \in btargets[b2] : bdeliv[b2][ws] = 1 /\ bdeliv[b1][ws] = 1

\* C35: no thinking_step broadcast is lost to a connected observer: for any sequence
\* of send_thinking_step calls, also back to back, the observer receives every step
\* exactly once and in call order. After a call, every observer that was connected
\* at the call and has stayed connected has received a thinking_step message.
C35_ThinkingStepsDelivered ==
    \A ws \in step_due :
        \E i \in DOMAIN delivered[ws] : delivered[ws][i].type = "thinking_step"

(***************************************************************************)
(*                            ORCHESTRATOR                                 *)
(***************************************************************************)

STT_LLM_RETRIES == 2

\* settings.PROACTIVE_IDLE_SEC, in ticks of the model clock.
PROACTIVE_IDLE_SEC == 2

\* Bounds of the orchestrator model.
MaxEnqueued == 3
MaxTime == 4

\* Items the wake listener or the bridge may put on the queue.
Queries == {" What time is it? ", "   ", ""}

\* str(query).strip()
Strip(q) ==
    CASE q = " What time is it? " -> "What time is it?"
      [] q = "   " -> ""
      [] OTHER -> ""

\* Values _run_one_turn can return (never empty: the fallback replaces an empty answer).
TurnReplies == {"It is 3:14 PM, sir."}

\* The source writes an em dash where this string has a hyphen.
Apology == "Brief glitch, Sir - please try again."
Retrying == "Retrying."
NoCatch == "I didn't catch that, Sir."
BreakLine == "Sir, you appear to be at your desk. A short break is recommended."

AllPhases == {"vision", "llm", "reply", "tts", "history", "summarize", "save"}

\* Whether run_orchestrator was given a bridge (--serve) or not.
BridgeArgs == {"Bridge", "None"}

\* `if bridge is not None: await bridge.send_*(...)`
BridgeSend(log, br, msg) == IF br # "None" THEN Append(log, msg) ELSE log

\* query_queue.get(): asyncio.Queue is first in, first out.
QueueGet_Last(q) == q[Len(q)]

QueueGet(q) == Head(q)

\* `for attempt in range(STT_LLM_RETRIES + 1)`: iteration a was the last one.
TurnAttemptsExhausted_OffByOne(a) == a >= STT_LLM_RETRIES + 1

TurnAttemptsExhausted(a) == a >= STT_LLM_RETRIES

\* The except branch's assignment to `final`.
RetryFinal(a) == IF a >= STT_LLM_RETRIES THEN Apology ELSE Retrying

\* short_term.append(user); short_term.append(assistant)
HistoryAppend_AssistantOnly(st, q, reply) ==
    Append(st, [role |-> "assistant", content |-> reply])

HistoryAppend(st, q, reply) ==
    Append(Append(st, [role |-> "user", content |-> Strip(q)]),
           [role |-> "assistant", content |-> reply])

\* memory.maybe_summarize: may fold the older entries into the summary, keeping the
\* most recent ones.
MaybeSummarize(st) ==
    IF Len(st) > 2 THEN {st, SubSeq(st, Len(st) - 1, Len(st))} ELSE {st}

\* `idle_since = time.monotonic()` at the end of the timeout branch that scanned.
IdleAfterScan_Kept(idle, t) == idle

IdleAfterScan(idle, t) == t

NoScan == [start |-> None, idle_at_start |-> None, previous |-> None, done |-> FALSE,
           person |-> FALSE, spoken |-> FALSE, broadcast |-> FALSE]

InTurn == pc \notin {"wait", "proactive"}

NoTurn == [kind |-> "none", query |-> "", reply |-> "", first_ok |-> FALSE,
           tools |-> FALSE, msgs |-> <<>>, phases |-> {}, grew |-> 0]

InitOrch ==
    /\ pc = "wait"
    /\ bridge \in BridgeArgs
    /\ query_queue = <<>>
    /\ query = ""
    /\ attempt = 0
    /\ final = ""
    /\ short_term = <<>>
    /\ now = 0
    /\ idle_since = 0
    /\ sent = <<StatusMsg("Listening")>>
    /\ enqLog = <<>>
    /\ processed = <<>>
    /\ phases = {}
    /\ attemptLog = <<>>
    /\ nturns = 0
    /\ lastTurn = NoTurn
    /\ lastScan = NoScan
    /\ stBefore = <<>>

\* The wake listener (loop.call_soon_threadsafe(query_queue.put_nowait, text)) or
\* Bridge.inject_text puts an item on the queue, at any time.
Enqueue ==
    /\ UNCHANGED <<bridgeVars, chatVars, extVars>>
    /\ \E q \in Queries :
           /\ Len(enqLog) < MaxEnqueued
           /\ query_queue' = Append(query_queue, q)
           /\ enqLog' = Append(enqLog, q)
           /\ UNCHANGED <<pc, bridge, query, attempt, final, short_term, now, idle_since,
                          sent, processed, phases, attemptLog, nturns, lastTurn, stBefore,
                   lastScan>>

\* time.monotonic() advances.
Tick ==
    /\ now < MaxTime
    /\ now' = now + 1
    /\ UNCHANGED <<pc, bridge, query_queue, query, attempt, final, short_term,
                   idle_since, sent, enqLog, processed, phases, attemptLog, nturns, lastTurn,
                   stBefore,
                   lastScan>>
    /\ UNCHANGED <<bridgeVars, chatVars, extVars>>

\* asyncio.wait_for(query_queue.get(), ...) timed out and the idle time has reached
\* PROACTIVE_IDLE_SEC: the proactive vision scan is started. (A timeout before that
\* only continues the loop.) With the idle time reached the timeout is 0, and the
\* wait may time out even though an item is queued.
ProactiveStart ==
    /\ pc = "wait"
    /\ now - idle_since >= PROACTIVE_IDLE_SEC
    /\ pc' = "proactive"
    /\ lastScan' = [NoScan EXCEPT !.start = now, !.idle_at_start = idle_since,
                                  !.previous = lastScan.start]
    /\ UNCHANGED <<bridge, query_queue, query, attempt, final, short_term, now,
                   idle_since, sent, enqLog, processed, phases, attemptLog, nturns, lastTurn,
                   stBefore>>
    /\ UNCHANGED <<bridgeVars, chatVars, extVars>>

\* The scan returns; with a person detected the break line is spoken and broadcast.
ProactiveDone ==
    /\ UNCHANGED <<bridgeVars, chatVars, extVars>>
    /\ \E person \in BOOLEAN :
           /\ pc = "proactive"
           /\ sent' = IF person THEN BridgeSend(sent, bridge, ProactiveMsg(BreakLine))
                      ELSE sent
           /\ idle_since' = IdleAfterScan(idle_since, now)
           /\ lastScan' = [lastScan EXCEPT !.done = TRUE, !.person = person,
                                           !.spoken = person, !.broadcast = sent' # sent]
           /\ pc' = "wait"
           /\ UNCHANGED <<bridge, query_queue, query, attempt, final, short_term, now,
                          enqLog, processed, phases, attemptLog, nturns, lastTurn, stBefore>>

\* query = await query_queue.get(); an empty item goes to the "didn't catch" branch,
\* any other is echoed as the final transcript and the vision scan is started.
Dequeue ==
    /\ pc = "wait"
    /\ query_queue # <<>>
    /\ LET q == QueueGet(query_queue)
       IN /\ query' = q
          /\ processed' = Append(processed, q)
          /\ IF Strip(q) = ""
                THEN /\ pc' = "nocatch"
                     /\ sent' = <<StatusMsg("Speaking")>>
                ELSE /\ pc' = "vision"
                     /\ sent' = BridgeSend(<<>>, bridge, TranscriptMsg(Strip(q), TRUE))
    /\ query_queue' = Tail(query_queue)
    /\ stBefore' = short_term
    /\ phases' = {}
    /\ attemptLog' = <<>>
    /\ UNCHANGED <<bridge, attempt, final, short_term, now, idle_since, enqLog, nturns, lastTurn,
                   lastScan>>
    /\ UNCHANGED <<bridgeVars, chatVars, extVars>>

\* The empty-query branch: speak and broadcast the fixed line, back to listening.
NoCatchReply ==
    /\ pc = "nocatch"
    /\ sent' = Append(BridgeSend(sent, bridge, ReplyMsg(NoCatch)), StatusMsg("Listening"))
    /\ idle_since' = now
    /\ nturns' = nturns + 1
    /\ lastTurn' = [kind |-> "nocatch", query |-> query, reply |-> NoCatch,
                    first_ok |-> FALSE, tools |-> FALSE, msgs |-> sent',
                    phases |-> phases, grew |-> Len(short_term) - Len(stBefore)]
    /\ UNCHANGED lastScan
    /\ pc' = "wait"
    /\ UNCHANGED <<bridge, query_queue, query, attempt, final, short_term, now, enqLog,
                   processed, phases, attemptLog, stBefore>>
    /\ UNCHANGED <<bridgeVars, chatVars, extVars>>

\* vision_description = await run_in_executor(run_tool, "vision_analyze");
\* status_cb("Thinking (LLM)"); the retry loop starts.
Vision ==
    /\ pc = "vision"
    /\ sent' = Append(sent, StatusMsg("Thinking (LLM)"))
    /\ attempt' = 0
    /\ phases' = phases \cup {"vision"}
    /\ pc' = "llm"
    /\ UNCHANGED <<bridge, query_queue, query, final, short_term, now, idle_since,
                   enqLog, processed, attemptLog, nturns, lastTurn, stBefore,
                   lastScan>>
    /\ UNCHANGED <<bridgeVars, chatVars, extVars>>

\* One iteration of the retry loop: _run_one_turn returns a reply (break) or raises.
Attempt ==
    /\ UNCHANGED <<bridgeVars, chatVars, extVars>>
    /\ \E ok \in BOOLEAN : \E r \in TurnReplies : \E tools \in BOOLEAN :
           /\ pc = "llm"
           /\ IF ok
                 THEN /\ final' = r
                      /\ attemptLog' = Append(attemptLog, [outcome |-> "ok", result |-> r,
                                                           tools |-> tools])
                      /\ pc' = "reply"
                      /\ phases' = phases \cup {"llm"}
                      /\ UNCHANGED attempt
                 ELSE /\ r = "It is 3:14 PM, sir." /\ tools = FALSE
                      /\ final' = RetryFinal(attempt)
                      /\ attemptLog' = Append(attemptLog, [outcome |-> "raise",
                                                           result |-> "", tools |-> FALSE])
                      /\ IF TurnAttemptsExhausted(attempt)
                            THEN /\ pc' = "reply"
                                 /\ phases' = phases \cup {"llm"}
                                 /\ UNCHANGED attempt
                            ELSE /\ attempt' = attempt + 1
                                 /\ UNCHANGED <<pc, phases>>
           /\ UNCHANGED <<bridge, query_queue, query, short_term, now, idle_since, sent,
                          enqLog, processed, nturns, lastTurn, stBefore,
                   lastScan>>

\* status_cb("Speaking"); await bridge.send_reply(final); synthesize is started.
Reply ==
    /\ pc = "reply"
    /\ sent' = BridgeSend(Append(sent, StatusMsg("Speaking")), bridge, ReplyMsg(final))
    /\ phases' = phases \cup {"reply"}
    /\ pc' = "tts"
    /\ UNCHANGED <<bridge, query_queue, query, attempt, final, short_term, now,
                   idle_since, enqLog, processed, attemptLog, nturns, lastTurn, stBefore,
                   lastScan>>
    /\ UNCHANGED <<bridgeVars, chatVars, extVars>>

\* synthesize / play_wav return (a missing wav is only logged); the two entries are
\* appended to the history and maybe_summarize is started.
SpeakAndAppend ==
    /\ pc = "tts"
    /\ short_term' = HistoryAppend(short_term, query, final)
    /\ phases' = phases \cup {"tts", "history"}
    /\ pc' = "summarize"
    /\ UNCHANGED <<bridge, query_queue, query, attempt, final, now, idle_since, sent,
                   enqLog, processed, attemptLog, nturns, lastTurn, stBefore,
                   lastScan>>
    /\ UNCHANGED <<bridgeVars, chatVars, extVars>>

\* maybe_summarize returns; save_session is started.
Summarize ==
    /\ UNCHANGED <<bridgeVars, chatVars, extVars>>
    /\ \E st \in MaybeSummarize(short_term) :
           /\ pc = "summarize"
           /\ short_term' = st
           /\ phases' = phases \cup {"summarize"}
           /\ pc' = "save"
           /\ UNCHANGED <<bridge, query_queue, query, attempt, final, now, idle_since,
                          sent, enqLog, processed, attemptLog, nturns, lastTurn, stBefore,
                   lastScan>>

\* save_session returns; status_cb("Listening"); the idle timer is reset.
Save ==
    /\ pc = "save"
    /\ sent' = Append(sent, StatusMsg("Listening"))
    /\ idle_since' = now
    /\ phases' = phases \cup {"save"}
    /\ nturns' = nturns + 1
    /\ lastTurn' = [kind |-> "turn", query |-> query, reply |-> final,
                    first_ok |-> attemptLog[1].outcome = "ok",
                    tools |-> attemptLog[Len(attemptLog)].tools, msgs |-> sent',
                    phases |-> phases', grew |-> Len(short_term) - Len(stBefore)]
    /\ UNCHANGED lastScan
    /\ pc' = "wait"
    /\ UNCHANGED <<bridge, query_queue, query, attempt, final, short_term, now, enqLog,
                   processed, attemptLog, stBefore>>
    /\ UNCHANGED <<bridgeVars, chatVars, extVars>>

NextOrch ==
    \/ Enqueue
    \/ Tick
    \/ ProactiveStart
    \/ ProactiveDone
    \/ Dequeue
    \/ NoCatchReply
    \/ Vision
    \/ Attempt
    \/ Reply
    \/ SpeakAndAppend
    \/ Summarize
    \/ Save

(***************************************************************************)
(*                       CLAIMS: ORCHESTRATOR                              *)
(***************************************************************************)

\* The text of the last reply message of a log of broadcasts.
LastReplyText(log) ==
    LET idx == {i \in DOMAIN log : log[i].type = "reply"}
    IN IF idx = {} THEN "" ELSE log[CHOOSE i \in idx : \A j \in idx : j <= i].text

\* C4: turns never overlap: a query is taken from the queue only when the turn before
\* it has run through every phase, queries are taken in the order they were put, and
\* the proactive scan runs only between turns.
C4_TurnsSerialFifo ==
    /\ processed \o query_queue = enqLog
    /\ Len(processed) = nturns + (IF InTurn THEN 1 ELSE 0)
    /\ (InTurn => query = processed[Len(processed)])
    /\ (pc = "proactive" => Len(processed) = nturns)
    /\ (lastTurn.kind # "none" => lastTurn.query = processed[nturns])
    /\ (lastTurn.kind = "turn" => lastTurn.phases = AllPhases)

\* Three queries were put on the queue; the first two have been handled to the end
\* in that order and the third, a different one, is still waiting.
C4_Witness ==
    /\ nturns = 2
    /\ lastTurn.kind = "turn"
    /\ Len(enqLog) = 3
    /\ enqLog[2] # enqLog[3]
    /\ query_queue = <<enqLog[3]>>
    /\ pc = "wait"

\* C5: a turn makes at most STT_LLM_RETRIES + 1 attempts, another attempt follows only
\* an attempt that raised, the reply is the first successful result, or the apology
\* when every attempt raised, and the loop then goes on to the next query.
C5_RetryBound ==
    /\ Len(attemptLog) <= STT_LLM_RETRIES + 1
    /\ \A i \in 1..(Len(attemptLog) - 1) : attemptLog[i].outcome = "raise"
    /\ (pc = "llm" => Len(attemptLog) = attempt /\ attempt <= STT_LLM_RETRIES)
    /\ (pc \in {"reply", "tts", "summarize", "save"} =>
           LET n == Len(attemptLog)
           IN /\ n >= 1
              /\ IF attemptLog[n].outcome = "ok"
                    THEN final = attemptLog[n].result
                    ELSE n = STT_LLM_RETRIES + 1 /\ final = Apology)
    /\ (pc \in {"tts", "summarize", "save"} /\ bridge = "Bridge" =>
           LastReplyText(sent) = final)

\* A turn ended with the apology after three raised attempts, and the next query is
\* being handled.
C5_Witness ==
    /\ lastTurn.kind = "turn"
    /\ lastTurn.reply = Apology
    /\ ~lastTurn.first_ok
    /\ pc = "reply"
    /\ Len(attemptLog) = 2
    /\ attemptLog[2].outcome = "ok"

MsgShape(m) ==
    CASE m.type = "status" -> <<"status", m.status>>
      [] m.type = "thinking_step" -> <<"thinking_step", m.step>>
      [] m.type = "transcript_final" -> <<"transcript_final", "">>
      [] m.type = "reply" -> <<"reply", "">>
      [] OTHER -> <<m.type, "">>

TextQuerySequence ==
    << <<"transcript_final", "">>, <<"thinking_step", "heard">>,
       <<"thinking_step", "context">>, <<"thinking_step", "reasoning">>,
       <<"status", "Thinking (LLM)">>, <<"thinking_step", "speaking">>,
       <<"status", "Speaking">>, <<"reply", "">>, <<"thinking_step", "done">>,
       <<"status", "Listening">> >>

\* C7: a non-empty text query whose first attempt succeeds without tool calls
\* broadcasts exactly transcript_final, thinking_step heard, context, reasoning,
\* status Thinking (LLM), thinking_step speaking, status Speaking, reply,
\* thinking_step done, status Listening, in that order.
C7_TextQuerySequence ==
    (/\ bridge = "Bridge"
     /\ pc = "wait"
     /\ lastTurn.kind = "turn"
     /\ lastTurn.first_ok
     /\ ~lastTurn.tools)
    => /\ [i \in DOMAIN lastTurn.msgs |-> MsgShape(lastTurn.msgs[i])] = TextQuerySequence
       /\ \A i \in DOMAIN lastTurn.msgs :
              lastTurn.msgs[i].type = "reply" => lastTurn.msgs[i].text # ""

C34_ProactiveScansIdleApart ==
    /\ [](/\ (pc = "proactive" => lastScan.start # None /\ ~lastScan.done)
          /\ (lastScan.start # None =>
                 /\ lastScan.start - lastScan.idle_at_start >= PROACTIVE_IDLE_SEC
                 /\ (lastScan.previous # None =>
                        lastScan.start - lastScan.previous >= PROACTIVE_IDLE_SEC)
                 /\ (lastScan.spoken => lastScan.done /\ lastScan.person)
                 /\ (lastScan.broadcast => lastScan.done /\ lastScan.person)))
    /\ [][/\ (pc' = "proactive" /\ pc # "proactive" => pc = "wait")
          /\ (pc' = "wait" /\ pc # "wait" => idle_since' = now)
          /\ (idle_since' # idle_since => pc' = "wait" /\ pc # "wait")]_vars

\* A second scan started just PROACTIVE_IDLE_SEC after the one before it, reported a
\* person, and the proactive line was spoken and broadcast.
C34_Witness ==
    /\ lastScan.done
    /\ lastScan.previous # None
    /\ lastScan.start - lastScan.previous = PROACTIVE_IDLE_SEC
    /\ lastScan.person
    /\ lastScan.spoken
    /\ lastScan.broadcast

(***************************************************************************)
(*                             CHAT CLIENT                                 *)
(***************************************************************************)

\* _OOM_RETRY_NUM_CTX
OomRetryNumCtx == <<2048, 1024, 512>>

\* num_ctx arguments and settings.OLLAMA_NUM_CTX_MAX values the model draws from.
NumCtxInputs == {64, 600, 1024, 2048, 8192}
CapInputs == {1024, 2048, 4096}

ChatFns == {"chat", "chat_with_tools"}

\* A text (response body, or str(exception)) is modelled by the set of the patterns
\* it contains; "failed to load model" contains "failed to load".
Texts == { {}, {"out of memory"}, {"buffer"} }

Statuses == {200, 500, 503}

\* What one requests.post can produce: a response, or a RequestException without one.
Responses ==
    [kind : {"http"}, status : Statuses, text : Texts]
        \cup [kind : {"exc"}, status : {0}, text : Texts]

Min2(a, b) == IF a < b THEN a ELSE b
Max2(a, b) == IF a > b THEN a ELSE b

\* _safe_num_ctx
safe_num_ctx(num_ctx, cap) == Min2(Max2(128, num_ctx), cap)

\* `[num_ctx] + [c for c in _OOM_RETRY_NUM_CTX if c < num_ctx]`
RetrySequence_NonStrict(num_ctx) ==
    <<num_ctx>> \o SelectSeq(OomRetryNumCtx, LAMBDA c : c <= num_ctx)

RetrySequence(num_ctx) ==
    <<num_ctx>> \o SelectSeq(OomRetryNumCtx, LAMBDA c : c < num_ctx)

\* _is_oom_error on a response body
is_oom_error(text) ==
    text \cap {"allocate", "buffer", "failed to load model", "out of memory",
               "nvmapmemalloc"} # {}

\* _is_oom_exception on an exception that carries no response
is_oom_exception(text) ==
    text \cap {"out of memory", "allocate", "failed to load"} # {}

\* What the loop body of chat_with_tools does with one outcome of requests.post:
\* "ok" (return the parsed reply), "retry" (recover, continue), "empty" (return the
\* empty result).
ChatWithToolsStep_RetryAll(resp) ==
    IF resp.kind = "http" /\ resp.status = 200 THEN "ok" ELSE "retry"

ChatWithToolsStep_NoExcRetry(resp) ==
    CASE resp.kind = "http" /\ resp.status = 200 -> "ok"
      [] resp.kind = "http" /\ resp.status = 500 /\ is_oom_error(resp.text) -> "retry"
      [] OTHER -> "empty"

ChatWithToolsStep(resp) ==
    CASE resp.kind = "http" /\ resp.status = 200 -> "ok"
      [] resp.kind = "http" /\ resp.status = 500 /\ is_oom_error(resp.text) -> "retry"
      [] resp.kind = "http" -> "empty"
      [] resp.kind = "exc" /\ is_oom_exception(resp.text) -> "retry"
      [] OTHER -> "empty"

\* The same for chat: any other status goes through raise_for_status, whose HTTPError
\* carries the response and is classified by _is_oom_exception -> _is_oom_error.
ChatStep(resp) ==
    CASE resp.kind = "http" /\ resp.status = 200 -> "ok"
      [] resp.kind = "http" /\ resp.status = 500 /\ is_oom_error(resp.text) -> "retry"
      [] resp.kind = "http" /\ resp.status >= 400 /\ is_oom_error(resp.text) -> "retry"
      [] resp.kind = "http" -> "empty"
      [] resp.kind = "exc" /\ is_oom_exception(resp.text) -> "retry"
      [] OTHER -> "empty"

\* _recover_from_oom, by the number of times it has run in the call.
RecoverFromOom_Skipped(n) == n

RecoverFromOom(n) == n + 1

StepOf(fn, resp) == IF fn = "chat" THEN ChatStep(resp) ELSE ChatWithToolsStep(resp)

\* Return values.
EmptyResult(fn) ==
    IF fn = "chat" THEN [content |-> ""] ELSE [content |-> "", tool_calls |-> <<>>]

OkResult(fn) ==
    IF fn = "chat" THEN [content |-> "answer"]
    ELSE [content |-> "answer", tool_calls |-> <<>>]

NoResult == [content |-> "<pending>"]

InitChat ==
    /\ cpc = "start"
    /\ cfn \in ChatFns
    /\ creq \in NumCtxInputs
    /\ ccap \in CapInputs
    /\ ctries = <<>>
    /\ clog = <<>>
    /\ crecov = 0
    /\ cresult = NoResult

\* num_ctx = _safe_num_ctx(num_ctx); the for loop's sequence is built.
ChatStart ==
    /\ cpc = "start"
    /\ ctries' = RetrySequence(safe_num_ctx(creq, ccap))
    /\ cpc' = "loop"
    /\ UNCHANGED <<cfn, creq, ccap, clog, crecov, cresult>>
    /\ UNCHANGED <<bridgeVars, orchVars, extVars>>

\* One iteration of the for loop: post with num_ctx = try_ctx, then return, or
\* _recover_from_oom and continue.
ChatAttempt ==
    /\ UNCHANGED <<bridgeVars, orchVars, extVars>>
    /\ \E resp \in Responses :
           /\ cpc = "loop"
           /\ ctries # <<>>
           /\ LET try_ctx == Head(ctries)
                  step == StepOf(cfn, resp)
              IN /\ clog' = Append(clog, [ctx |-> try_ctx, resp |-> resp, step |-> step,
                                          recovered |-> step = "retry"])
                 /\ CASE step = "ok" ->
                           /\ cresult' = OkResult(cfn)
                           /\ cpc' = "done"
                           /\ UNCHANGED <<ctries, crecov>>
                      [] step = "retry" ->
                           /\ crecov' = RecoverFromOom(crecov)
                           /\ ctries' = Tail(ctries)
                           /\ UNCHANGED <<cpc, cresult>>
                      [] OTHER ->
                           /\ cresult' = EmptyResult(cfn)
                           /\ cpc' = "done"
                           /\ UNCHANGED <<ctries, crecov>>
           /\ UNCHANGED <<cfn, creq, ccap>>

\* The for loop ran out of context sizes: the empty result is returned.
ChatExhausted ==
    /\ cpc = "loop"
    /\ ctries = <<>>
    /\ cresult' = EmptyResult(cfn)
    /\ cpc' = "done"
    /\ UNCHANGED <<cfn, creq, ccap, ctries, clog, crecov>>
    /\ UNCHANGED <<bridgeVars, orchVars, extVars>>

NextChat ==
    \/ ChatStart
    \/ ChatAttempt
    \/ ChatExhausted

(***************************************************************************)
(*                        CLAIMS: CHAT CLIENT                              *)
(***************************************************************************)

\* An attempt that failed with an OOM error as the chat_with_tools contract words it:
\* HTTP 500 with an OOM body, or a transport exception that names an allocation failure.
OomFailure500(resp) ==
    \/ resp.kind = "http" /\ resp.status = 500 /\
           resp.text \cap {"allocate", "buffer", "failed to load model", "out of memory",
                           "nvmapmemalloc"} # {}
    \/ resp.kind = "exc" /\ resp.text \cap {"out of memory", "allocate", "failed to load"} # {}

\* An attempt that failed with an OOM error: an error status or a transport exception
\* whose text names an allocation failure.
OomFailure(resp) ==
    \/ OomFailure500(resp)
    \/ resp.kind = "http" /\ resp.status >= 400 /\
           resp.text \cap {"allocate", "buffer", "failed to load model", "out of memory",
                           "nvmapmemalloc"} # {}

LadderBelow(first) == {c \in {2048, 1024, 512} : c < first}

\* C9: when every attempt of a chat_with_tools call fails with an OOM error, the call
\* ends after the smallest context size of its retry sequence has failed, and returns
\* the empty content with no tool calls.
C9_AllOomReturnsEmpty ==
    (/\ cpc = "done"
     /\ cfn = "chat_with_tools"
     /\ clog # <<>>
     /\ \A i \in DOMAIN clog : OomFailure500(clog[i].resp))
    => LET sizes == {clog[1].ctx} \cup LadderBelow(clog[1].ctx)
       IN /\ cresult = [content |-> "", tool_calls |-> <<>>]
          /\ Len(clog) = Cardinality(sizes)
          /\ \A c \in sizes : clog[Len(clog)].ctx <= c
          /\ crecov = Len(clog)

\* A chat_with_tools call that went through four context sizes, each failing with an
\* OOM error, one of them a transport exception, and has returned.
C9_Witness ==
    /\ cpc = "done"
    /\ cfn = "chat_with_tools"
    /\ Len(clog) = 4
    /\ \A i \in DOMAIN clog : OomFailure500(clog[i].resp)
    /\ \E i \in DOMAIN clog : clog[i].resp.kind = "exc"
    /\ \E i \in DOMAIN clog : clog[i].resp.kind = "http"
    /\ clog[4].ctx = 512

LaterAttemptsDescend ==
    \A i \in 2..Len(clog) :
        /\ clog[i].ctx < clog[i - 1].ctx
        /\ clog[i].ctx \in LadderBelow(clog[1].ctx)
        /\ \A c \in LadderBelow(clog[1].ctx) : c < clog[i - 1].ctx => c <= clog[i].ctx
        /\ OomFailure(clog[i - 1].resp)
        /\ clog[i - 1].resp.kind = "http" /\ cfn = "chat_with_tools"
               => clog[i - 1].resp.status = 500

\* C10 as stated: the first attempt uses the requested num_ctx capped to the configured
\* maximum, each later one the next smaller member of the ladder [2048, 1024, 512], and
\* another attempt is made only after an OOM failure.
C10_FirstIsCappedRequest ==
    /\ (clog # <<>> => clog[1].ctx = Min2(creq, ccap))
    /\ LaterAttemptsDescend

\* C10, amended: the first attempt uses the requested num_ctx raised to at least 128
\* and then capped to the configured maximum; each later attempt uses the next smaller
\* member of the ladder [2048, 1024, 512] below the first, in strictly decreasing order,
\* and another attempt is made only after an OOM failure.
C10_FirstIsFlooredThenCapped ==
    /\ (clog # <<>> =>
           clog[1].ctx = IF creq < 128 THEN Min2(128, ccap) ELSE Min2(creq, ccap))
    /\ LaterAttemptsDescend

\* A call whose request was capped, with three attempts down the ladder.
C10_Witness ==
    /\ Len(clog) = 3
    /\ creq > ccap
    /\ clog[1].ctx = ccap
    /\ clog[3].ctx = 512

\* An attempt that failed for a reason other than OOM: a non-200 status that is not an
\* OOM 500, or a transport exception that does not name an allocation failure.
NonOomFailure(resp) ==
    /\ ~(resp.kind = "http" /\ resp.status = 200)
    /\ ~OomFailure500(resp)

\* C38: a chat_with_tools attempt that fails for a reason other than OOM ends the call
\* at once with the empty content and no tool calls: it is the last attempt of the
\* call and no OOM recovery is run for it.
C38_NonOomFailureEndsCall ==
    cfn = "chat_with_tools" =>
        \A i \in DOMAIN clog :
            NonOomFailure(clog[i].resp) =>
                /\ i = Len(clog)
                /\ cpc = "done"
                /\ cresult = [content |-> "", tool_calls |-> <<>>]
                /\ ~clog[i].recovered
                /\ crecov = i - 1

\* A chat_with_tools call recovered from an OOM 500 and then ended on a transport
\* exception that names no allocation failure, with context sizes left to try.
C38_Witness ==
    /\ cfn = "chat_with_tools"
    /\ cpc = "done"
    /\ Len(clog) = 2
    /\ OomFailure500(clog[1].resp)
    /\ clog[2].resp.kind = "exc"
    /\ NonOomFailure(clog[2].resp)
    /\ ctries # <<>>
    /\ crecov = 1
    /\ cresult = [content |-> "", tool_calls |-> <<>>]

OomFailedAttempts == {i \in DOMAIN clog : OomFailure500(clog[i].resp)}

\* C11 as stated: in a chat_with_tools call the recovery runs once after each
\* OOM-failed attempt, one OOM followed by a success makes one recovery, and every
\* recovery is followed by a retry (a finished call made one attempt more than it
\* made recoveries).
C11_EveryRecoveryRetried ==
    cfn = "chat_with_tools" =>
        /\ crecov = Cardinality(OomFailedAttempts)
        /\ (cpc = "done" => Len(clog) = crecov + 1)

\* C11, amended: in a chat_with_tools call the recovery runs once after each
\* OOM-failed attempt, one OOM followed by a success makes one recovery, and every
\* recovery is followed by a retry at the next smaller num_ctx, except the recovery
\* after the failure of the smallest context size, which is followed by the return
\* of the empty result.
C11_RecoveryOncePerOomFailure ==
    cfn = "chat_with_tools" =>
        /\ crecov = Cardinality(OomFailedAttempts)
        /\ \A i \in 1..(Len(clog) - 1) :
               i \in OomFailedAttempts /\ clog[i + 1].ctx < clog[i].ctx
        /\ (cpc = "done" =>
               IF Len(clog) \in OomFailedAttempts
                  THEN /\ Len(clog) = crecov
                       /\ LadderBelow(clog[Len(clog)].ctx) = {}
                       /\ cresult = [content |-> "", tool_calls |-> <<>>]
                  ELSE Len(clog) = crecov + 1)

\* One OOM failure, one recovery, and the retry at the next smaller size succeeded.
C11_Witness ==
    /\ cfn = "chat_with_tools"
    /\ cpc = "done"
    /\ Len(clog) = 2
    /\ OomFailure500(clog[1].resp)
    /\ clog[2].resp.status = 200
    /\ clog[2].ctx < clog[1].ctx
    /\ crecov = 1
    /\ cresult.content # ""

(***************************************************************************)
(*                     ONE TURN: THE TOOL LOOP                             *)
(***************************************************************************)

MAX_TOOL_ROUNDS == 3

\* Values of settings.MAX_TOOL_CALLS_PER_TURN.
ToolCapInputs == {0, 1, 2, 4}

\* The most tool calls one response carries in the model.
MaxReturnedCalls == 3

\* Contents a response can carry.
Contents == {"", " ", "It is 3:14 PM, sir."}

\* (content or "").strip()
StripContent(c) == IF c = " " THEN "" ELSE c

Unable == "I'm unable to complete that, Sir."

\* max_rounds = min(MAX_TOOL_ROUNDS, settings.MAX_TOOL_CALLS_PER_TURN)
MaxRounds_Uncapped(cap) == cap

MaxRounds(cap) == Min2(MAX_TOOL_ROUNDS, cap)

\* response.get("tool_calls", [])[: settings.MAX_TOOL_CALLS_PER_TURN], by length
TruncateToolCalls(n, cap) == Min2(n, cap)

\* `if not final_answer: final_answer = "I'm unable to complete that, Sir."`
FinalAnswer(a) == IF a = "" THEN Unable ELSE a

InitTurn ==
    /\ tpc = "start"
    /\ max_calls \in ToolCapInputs
    /\ max_rounds = 0
    /\ round = 0
    /\ content = ""
    /\ tool_calls = 0
    /\ final_answer = ""
    /\ treply = ""
    /\ returned = 0
    /\ kept = 0
    /\ executed = 0
    /\ sent_results = 0

\* The messages are built; max_rounds and final_answer are set.
TurnStart ==
    /\ tpc = "start"
    /\ max_rounds' = MaxRounds(max_calls)
    /\ final_answer' = ""
    /\ tpc' = "loop"
    /\ UNCHANGED <<max_calls, round, content, tool_calls, treply, returned, kept, executed,
                   sent_results>>
    /\ UNCHANGED otherThanTurn

\* One iteration up to the tool calls: chat_with_tools returns, the tool calls are
\* sliced; without tool calls the content is the answer and the loop is left.
TurnChat ==
    /\ UNCHANGED otherThanTurn
    /\ \E c \in Contents : \E n \in 0..MaxReturnedCalls :
           /\ tpc = "loop"
           /\ round < max_rounds
           /\ round' = round + 1
           /\ content' = c
           /\ returned' = n
           /\ kept' = TruncateToolCalls(n, max_calls)
           /\ IF kept' = 0
                 THEN /\ final_answer' = StripContent(c)
                      /\ tpc' = "return"
                      /\ UNCHANGED tool_calls
                 ELSE /\ tool_calls' = kept'
                      /\ tpc' = "tools"
                      /\ UNCHANGED final_answer
           /\ sent_results' = executed
           /\ UNCHANGED <<max_calls, max_rounds, treply, executed>>

\* result = run_tool(name, args) for the next tool call of the round; run_tool
\* catches every exception of the tool.
TurnRunTool ==
    /\ tpc = "tools"
    /\ tool_calls > 0
    /\ executed' = executed + 1
    /\ tool_calls' = tool_calls - 1
    /\ tpc' = IF tool_calls' = 0 THEN "loop" ELSE "tools"
    /\ UNCHANGED <<max_calls, max_rounds, round, content, final_answer, treply,
                   returned, kept, sent_results>>
    /\ UNCHANGED otherThanTurn

\* range(max_rounds) is used up.
TurnLoopEnd ==
    /\ tpc = "loop"
    /\ round >= max_rounds
    /\ tpc' = "return"
    /\ UNCHANGED <<max_calls, max_rounds, round, content, tool_calls, final_answer,
                   treply, returned, kept, executed, sent_results>>
    /\ UNCHANGED otherThanTurn

\* The fallback replaces an empty answer; return final_answer.
TurnReturn ==
    /\ tpc = "return"
    /\ treply' = FinalAnswer(final_answer)
    /\ tpc' = "done"
    /\ UNCHANGED <<max_calls, max_rounds, round, content, tool_calls, final_answer,
                   returned, kept, executed, sent_results>>
    /\ UNCHANGED otherThanTurn

NextTurn ==
    \/ TurnStart
    \/ TurnChat
    \/ TurnRunTool
    \/ TurnLoopEnd
    \/ TurnReturn

\* C12: within one turn the number of tool executions, summed over all rounds, never
\* exceeds MAX_TOOL_CALLS_PER_TURN, and tool calls beyond the cap are not executed.
C12_ToolExecutionsWithinCap ==
    /\ executed <= max_calls
    /\ kept <= max_calls
    /\ tool_calls <= kept

\* C13: one turn makes at most MAX_TOOL_ROUNDS chat requests and always ends with a
\* non-empty reply; when a round returns content without tool calls the reply is
\* that content, otherwise it is the fixed fallback.
C13_TurnEndsWithReply ==
    /\ [](/\ round <= MAX_TOOL_ROUNDS
          /\ (tpc = "done" =>
                 /\ treply # ""
                 /\ treply = IF round >= 1 /\ kept = 0 /\ StripContent(content) # ""
                                 THEN StripContent(content)
                                 ELSE Unable))
    /\ <>(tpc = "done")

\* Every one of the three rounds returned tool calls and the turn ended with the
\* fallback reply.
C13_Witness ==
    /\ tpc = "done"
    /\ round = MAX_TOOL_ROUNDS
    /\ kept > 0
    /\ executed >= MAX_TOOL_ROUNDS
    /\ treply = Unable

\* C31: every tool execution in a turn is followed, within the same turn, by a chat
\* request whose messages contain that tool's result: when the turn has returned,
\* the last chat request carried the results of all the tools the turn ran.
C31_ToolResultsReachChat ==
    tpc = "done" => sent_results = executed

(***************************************************************************)
(*                         AMBIENT AWARENESS                               *)
(***************************************************************************)

\* The model clock ticks every 10 s: the defaults _COOLDOWN_SEC = 10.0,
\* _ACTIVE_DURATION_SEC = 30.0 and _THERMAL_CHECK_INTERVAL = 30.0 in ticks.
cooldown_sec == 1
active_duration_sec == 3
THERMAL_CHECK_INTERVAL == 3

THERMAL_PAUSE_C == 80
BATTERY_LOW_PCT == 15

\* ego_threshold, px/frame.
EGO_MOTION_THRESHOLD == 3
\* motion_threshold and the motion energy, in hundredths.
MOTION_ENERGY_THRESHOLD == 8

\* The clock of the model stops here.
MaxAmbientTime == 5

\* Inputs of one check_frame call: the frame's mean intensity, the flow's mean
\* magnitude and motion energy, and what utils.power reports when it is polled.
Intensities == {100, 200}
MeanMags == {3, 4}
Energies == {8, 9}
Temps == {None, 80, 81}
Batteries == {None, 14, 15}
PollOutcomes == {"ok", "thermal_raises", "battery_raises"}

\* What one poll of utils.power can give: both readings, or an exception of the
\* import or of the temperature reading, or an exception of the battery reading.
NoReadings == [temp |-> None, battery |-> None, poll |-> "ok"]

Readings ==
    [temp : Temps, battery : Batteries, poll : {"ok"}]
        \cup [temp : {None}, battery : {None}, poll : {"thermal_raises"}]
        \cup [temp : Temps, battery : {None}, poll : {"battery_raises"}]

\* AmbientEvent, by its type and recommend_full_scan (a dataclass field with
\* default False).
NoEvent == [event_type |-> "none", recommend_full_scan |-> FALSE]

TriggerEvent_NoScan(t) == [event_type |-> t, recommend_full_scan |-> FALSE]

TriggerEvent(t) == [event_type |-> t, recommend_full_scan |-> TRUE]

PowerEvent(t) == [event_type |-> t, recommend_full_scan |-> FALSE]

\* A _transition that takes the entry time on every call.
Transition_Restart(st, new, t) == <<new, t>>

\* _transition: the entry time is taken only when the state changes.
Transition(st, new, t) == IF new # st[1] THEN <<new, t>> ELSE st

\* The auto-transition from ACTIVE / COOLDOWN back to IDLE at the head of check_frame.
StateAfterTimeouts_Never(st, t) == st

StateAfterTimeouts(st, t) ==
    IF st[1] = "active" /\ t - st[2] > active_duration_sec THEN Transition(st, "idle", t)
    ELSE IF st[1] = "cooldown" /\ t - st[2] > cooldown_sec THEN Transition(st, "idle", t)
    ELSE st

\* _check_thermal_battery; an exception of the import or of a reading is caught and
\* gives no event.
CheckThermalBattery_Inclusive(temp, battery, poll) ==
    IF poll = "thermal_raises" THEN NoEvent
    ELSE IF temp # None /\ temp >= THERMAL_PAUSE_C THEN PowerEvent("thermal_throttle")
    ELSE IF poll = "battery_raises" THEN NoEvent
    ELSE IF battery # None /\ battery < BATTERY_LOW_PCT THEN PowerEvent("battery_low")
    ELSE NoEvent

CheckThermalBattery(temp, battery, poll) ==
    IF poll = "thermal_raises" THEN NoEvent
    ELSE IF temp # None /\ temp > THERMAL_PAUSE_C THEN PowerEvent("thermal_throttle")
    ELSE IF poll = "battery_raises" THEN NoEvent
    ELSE IF battery # None /\ battery < BATTERY_LOW_PCT THEN PowerEvent("battery_low")
    ELSE NoEvent

\* The first frame of the flow estimator: the frame's mean intensity is the baseline.
FirstFrameBaseline_Dropped(gray) == None

FirstFrameBaseline(gray) == gray

\* OpticalFlowEstimator.compute gives a flow only when it holds a previous frame: not
\* on the first frame after construction or reset().
FlowHasResult(has_prev) == has_prev

Abs(x) == IF x < 0 THEN 0 - x ELSE x

\* scene_delta > _SCENE_CHANGE_THRESHOLD, with
\* scene_delta = abs(gray_mean - prev) / max(gray_mean, 1.0) and the threshold 0.25.
SceneChanged(prev, gray) ==
    prev # None /\ 4 * Abs(gray - prev) > Max2(gray, 1)

\* The decision with the scene change tested before the ego-motion transition.
Decide_SceneFirst(was_moving, mean_mag, prev, gray, energy) ==
    LET ego_moving == mean_mag > EGO_MOTION_THRESHOLD
    IN IF SceneChanged(prev, gray) THEN TriggerEvent("scene_change")
       ELSE IF ego_moving # was_moving
          THEN TriggerEvent(IF ego_moving THEN "ego_motion_start" ELSE "ego_motion_stop")
       ELSE IF ~ego_moving /\ energy > MOTION_ENERGY_THRESHOLD
          THEN TriggerEvent("motion_detected")
       ELSE NoEvent

\* The decision, in priority order: ego-motion transition, scene change, object motion.
Decide(was_moving, mean_mag, prev, gray, energy) ==
    LET ego_moving == mean_mag > EGO_MOTION_THRESHOLD
    IN IF ego_moving # was_moving
          THEN TriggerEvent(IF ego_moving THEN "ego_motion_start" ELSE "ego_motion_stop")
       ELSE IF SceneChanged(prev, gray) THEN TriggerEvent("scene_change")
       ELSE IF ~ego_moving /\ energy > MOTION_ENERGY_THRESHOLD
          THEN TriggerEvent("motion_detected")
       ELSE NoEvent

\* An ego-moving flag that is left alone when the event of the call is suppressed.
TrackedEgoMoving_UnlessSuppressed(suppressed, ego_moving, was_moving) ==
    IF suppressed THEN was_moving ELSE ego_moving

\* `self._was_ego_moving = ego_moving`, before the decision and the suppression.
TrackedEgoMoving(suppressed, ego_moving, was_moving) == ego_moving

\* The cooldown suppression of an event that is not thermal or battery.
CooldownSuppresses_Never(st, ev) == FALSE

CooldownSuppresses(st, ev) ==
    /\ ev # NoEvent
    /\ st = "cooldown"
    /\ ev.event_type \notin {"thermal_throttle", "battery_low"}

NoCall == [first |-> FALSE, pre_state |-> "idle", elapsed |-> 0, polled |-> FALSE,
           temp |-> None, battery |-> None, poll |-> "ok", trigger |-> "none",
           event |-> NoEvent, post_state |-> "idle", baseline |-> None,
           computed |-> FALSE, decision_state |-> "idle", ego_moving |-> FALSE,
           ego_transition |-> FALSE, scene_change |-> FALSE, energy_over |-> FALSE,
           gray |-> None]

InitAmbient ==
    /\ amb_state = "idle"
    /\ anow \in {0, THERMAL_CHECK_INTERVAL + 1}
    /\ state_entered_at = anow
    /\ last_thermal_check = 0
    /\ was_ego_moving = FALSE
    /\ prev_mean_intensity = None
    /\ flow_prev = FALSE
    /\ first_call = TRUE
    /\ lastCall = NoCall

AmbientTick ==
    /\ anow < MaxAmbientTime
    /\ anow' = anow + 1
    /\ UNCHANGED <<amb_state, state_entered_at, last_thermal_check, was_ego_moving,
                   prev_mean_intensity, flow_prev, first_call, lastCall>>
    /\ UNCHANGED otherThanAmbient

\* check_frame(frame): the state timeouts, the periodic thermal / battery poll (an
\* event of it is returned at once), the flow (its first frame only stores the
\* baseline), the decision, the cooldown suppression and the transition to ACTIVE.
check_frame ==
    /\ UNCHANGED otherThanAmbient
    /\ \E gray \in Intensities : \E mean_mag \in MeanMags : \E energy \in Energies :
       \E r \in (IF anow - last_thermal_check > THERMAL_CHECK_INTERVAL
                  THEN Readings ELSE {NoReadings}) :
           LET st1 == StateAfterTimeouts(<<amb_state, state_entered_at>>, anow)
               polled == anow - last_thermal_check > THERMAL_CHECK_INTERVAL
               thermal_event == IF polled
                                   THEN CheckThermalBattery(r.temp, r.battery, r.poll)
                                   ELSE NoEvent
               computed == thermal_event = NoEvent /\ FlowHasResult(flow_prev)
               decided == IF computed
                             THEN Decide(was_ego_moving, mean_mag, prev_mean_intensity,
                                         gray, energy)
                             ELSE NoEvent
               event == IF thermal_event # NoEvent THEN thermal_event
                        ELSE IF CooldownSuppresses(st1[1], decided) THEN NoEvent
                        ELSE decided
               st2 == IF thermal_event = NoEvent /\ event # NoEvent
                         THEN Transition(st1, "active", anow)
                         ELSE st1
           IN /\ amb_state' = st2[1]
              /\ state_entered_at' = st2[2]
              /\ last_thermal_check' = IF polled THEN anow ELSE last_thermal_check
              /\ flow_prev' = (flow_prev \/ thermal_event = NoEvent)
              /\ prev_mean_intensity' =
                     IF thermal_event # NoEvent THEN prev_mean_intensity
                     ELSE IF ~FlowHasResult(flow_prev) THEN FirstFrameBaseline(gray)
                     ELSE gray
              /\ was_ego_moving' =
                     IF computed
                        THEN TrackedEgoMoving(CooldownSuppresses(st1[1], decided),
                                              mean_mag > EGO_MOTION_THRESHOLD,
                                              was_ego_moving)
                        ELSE was_ego_moving
              /\ first_call' = FALSE
              /\ lastCall' = [first |-> first_call, pre_state |-> amb_state,
                              elapsed |-> anow - state_entered_at, polled |-> polled,
                              temp |-> r.temp, battery |-> r.battery, poll |-> r.poll,
                              trigger |-> decided.event_type, event |-> event,
                              post_state |-> amb_state',
                              baseline |-> prev_mean_intensity',
                              computed |-> computed, decision_state |-> st1[1],
                              ego_moving |-> computed /\ mean_mag > EGO_MOTION_THRESHOLD,
                              ego_transition |->
                                  /\ computed
                                  /\ (mean_mag > EGO_MOTION_THRESHOLD) # was_ego_moving,
                              scene_change |->
                                  computed /\ SceneChanged(prev_mean_intensity, gray),
                              energy_over |->
                                  computed /\ energy > MOTION_ENERGY_THRESHOLD,
                              gray |-> IF thermal_event = NoEvent THEN gray ELSE None]
              /\ UNCHANGED anow

\* enter_cooldown(): called by the pipeline when a full scan has completed.
enter_cooldown ==
    /\ LET st == Transition(<<amb_state, state_entered_at>>, "cooldown", anow)
       IN /\ amb_state' = st[1]
          /\ state_entered_at' = st[2]
    /\ UNCHANGED <<last_thermal_check, was_ego_moving, prev_mean_intensity, flow_prev,
                   anow, first_call, lastCall>>
    /\ UNCHANGED otherThanAmbient

\* reset(): the flow estimator and the state are reset; _last_thermal_check is kept.
reset ==
    /\ amb_state' = "idle"
    /\ state_entered_at' = anow
    /\ was_ego_moving' = FALSE
    /\ prev_mean_intensity' = None
    /\ flow_prev' = FALSE
    /\ first_call' = TRUE
    /\ UNCHANGED <<last_thermal_check, anow, lastCall>>
    /\ UNCHANGED otherThanAmbient

NextAmbient ==
    \/ AmbientTick
    \/ check_frame
    \/ enter_cooldown
    \/ reset

MotionTriggers == {"motion_detected", "ego_motion_start", "ego_motion_stop", "scene_change"}
PowerTriggers == {"thermal_throttle", "battery_low"}

\* C14: a check_frame call made in COOLDOWN before cooldown_sec has elapsed returns
\* no motion, ego-motion or scene-change event and leaves the state COOLDOWN; only
\* thermal_throttle and battery_low can be returned.
C14_CooldownSuppressesTriggers ==
    (lastCall.pre_state = "cooldown" /\ lastCall.elapsed <= cooldown_sec) =>
        /\ lastCall.event.event_type \in PowerTriggers \cup {"none"}
        /\ lastCall.post_state = "cooldown"

\* A trigger was detected by a call in COOLDOWN and nothing was returned.
C14_Witness ==
    /\ lastCall.pre_state = "cooldown"
    /\ lastCall.elapsed <= cooldown_sec
    /\ lastCall.trigger \in MotionTriggers
    /\ lastCall.event = NoEvent
    /\ amb_state = "cooldown"

\* C15: after every check_frame call that returns an event, of any type and from any
\* prior state, the state is ACTIVE.
C15_EventMeansActive ==
    lastCall.event # NoEvent => lastCall.post_state = "active"

C17_TimeoutsFirst ==
    (\/ lastCall.pre_state = "active" /\ lastCall.elapsed > active_duration_sec
     \/ lastCall.pre_state = "cooldown" /\ lastCall.elapsed > cooldown_sec) =>
        IF lastCall.event.event_type \in PowerTriggers
           THEN lastCall.post_state = "idle"
           ELSE /\ lastCall.event.event_type = lastCall.trigger
                /\ lastCall.post_state = IF lastCall.trigger = "none" THEN "idle"
                                         ELSE "active"

\* A call after the cooldown had expired detected a trigger and returned it.
C17_Witness ==
    /\ lastCall.pre_state = "cooldown"
    /\ lastCall.elapsed > cooldown_sec
    /\ lastCall.trigger \in MotionTriggers
    /\ lastCall.event.event_type = lastCall.trigger
    /\ amb_state = "active"

PriorityChoice ==
    IF lastCall.ego_transition
       THEN (IF lastCall.ego_moving THEN "ego_motion_start" ELSE "ego_motion_stop")
    ELSE IF lastCall.scene_change THEN "scene_change"
    ELSE IF ~lastCall.ego_moving /\ lastCall.energy_over THEN "motion_detected"
    ELSE NoEvent.event_type

\* C29 as stated: each check_frame call returns at most one event, chosen in strict
\* priority: an ego transition yields ego_motion_start or ego_motion_stop even when
\* the scene-change and motion thresholds are also exceeded; otherwise a scene delta
\* above the threshold yields scene_change; otherwise motion_detected is produced only
\* when ego_moving is false and the motion energy exceeds the threshold.
C29_PriorityEventReturned ==
    lastCall.computed => lastCall.event.event_type = PriorityChoice

\* C29: in a check_frame call that reaches the decision, the event is chosen in that
\* strict priority, and the chosen event is what the call returns, unless the state
\* after the timeouts is COOLDOWN: then the call returns null.
C29_PriorityEventUnlessCooldown ==
    lastCall.computed =>
        /\ lastCall.trigger = PriorityChoice
        /\ lastCall.event.event_type =
               IF lastCall.decision_state = "cooldown" THEN NoEvent.event_type
               ELSE PriorityChoice

\* An ego transition with the scene-change and motion thresholds exceeded as well
\* returned ego_motion_start.
C29_Witness ==
    /\ lastCall.computed
    /\ lastCall.ego_transition
    /\ lastCall.scene_change
    /\ lastCall.energy_over
    /\ lastCall.decision_state # "cooldown"
    /\ lastCall.event.event_type = "ego_motion_start"

\* The configured duration of a timed state.
Duration(st) == IF st = "active" THEN active_duration_sec ELSE cooldown_sec

EgoTriggers == {"ego_motion_start", "ego_motion_stop"}

\* C36: an event emitted while the state is already ACTIVE does not restart the
\* ACTIVE timer and enter_cooldown in COOLDOWN does not restart the cooldown timer:
\* while the state stays ACTIVE (COOLDOWN) its entry time is kept, unless the timer
\* has run out and a check_frame passes through IDLE; and a check_frame call takes
\* the state to IDLE exactly when more than the configured duration has passed
\* since that entry.
C36_TimersNotRestarted ==
    /\ [](lastCall.pre_state \in {"active", "cooldown"} =>
             (lastCall.decision_state = "idle"
                  <=> lastCall.elapsed > Duration(lastCall.pre_state)))
    /\ [][(/\ amb_state \in {"active", "cooldown"}
           /\ amb_state' = amb_state
           /\ state_entered_at' # state_entered_at) =>
              /\ anow - state_entered_at > Duration(amb_state)
              /\ lastCall'.decision_state = "idle"
              /\ lastCall'.pre_state = amb_state]_vars

\* A call made in ACTIVE, some time after the entry, returned an event and the entry
\* time of ACTIVE is still the original one.
C36_Witness ==
    /\ lastCall.pre_state = "active"
    /\ lastCall.decision_state = "active"
    /\ lastCall.elapsed > 0
    /\ lastCall.event.event_type \in MotionTriggers
    /\ amb_state = "active"
    /\ anow - state_entered_at = lastCall.elapsed

\* C37: ego-motion and intensity tracking continue during COOLDOWN: a check_frame
\* call whose event is suppressed still updates the stored ego-moving flag and the
\* baseline intensity, so an ego transition suppressed in COOLDOWN is not emitted
\* again by the next call when the camera's ego state is still the same.
C37_TrackingContinuesInCooldown ==
    [][(lastCall' # lastCall /\ lastCall'.computed) =>
          /\ was_ego_moving' = lastCall'.ego_moving
          /\ prev_mean_intensity' = lastCall'.gray
          /\ (/\ lastCall.computed
              /\ lastCall.trigger \in EgoTriggers
              /\ lastCall.event = NoEvent
              /\ lastCall'.ego_moving = lastCall.ego_moving) =>
                 lastCall'.trigger \notin EgoTriggers]_vars

\* An ego-motion start was suppressed in COOLDOWN, with the flag and the baseline
\* updated all the same.
C37_Witness ==
    /\ lastCall.computed
    /\ lastCall.decision_state = "cooldown"
    /\ lastCall.trigger = "ego_motion_start"
    /\ lastCall.event = NoEvent
    /\ was_ego_moving
    /\ prev_mean_intensity = lastCall.gray
    /\ lastCall.scene_change

(***************************************************************************)
(*                        SHARED SINGLETONS                                *)
(***************************************************************************)

\* get_* calls started in the model.
MaxSharedCalls == 3

Threads == {"t1", "t2"}
Resources == {"camera", "yolo", "face"}

\* A resource's globals before initialisation and after a failed one.
Unassigned == <<"none", "none">>

\* The statements of the locked initialisation, in program order: the factory call
\* with its assignment (for yolo the engine, then the class names), then the flag.
InitBody_FlagFirst(r) ==
    IF r = "yolo" THEN <<"flag", "factory", "names">> ELSE <<"flag", "factory">>

InitBody(r) ==
    IF r = "yolo" THEN <<"factory", "names", "flag">> ELSE <<"factory", "flag">>

\* What the factory call leaves in the first global: open_camera, load_yolo_engine or
\* create_face_detector returns an object, or returns None or raises. For yolo the
\* engine file may be missing, and then the factory is not called.
FactoryOutcomes(r) ==
    IF r = "yolo" THEN {"ok", "fails", "missing"} ELSE {"ok", "fails"}

\* Every successful open_camera returns a new capture object.
CameraHandles == <<"capture1", "capture2", "capture3", "capture4", "capture5", "capture6">>

\* The value of the n-th factory call of resource r.
FactoryValue(r, outcome, n) ==
    IF outcome # "ok" THEN "none"
    ELSE IF r = "camera" THEN CameraHandles[n]
    ELSE IF r = "yolo" THEN "engine"
    ELSE "detector"

\* The flag written by the last statement of the locked initialisation: True, also
\* when the factory failed and the handle is None.
InitialisedAfter_OnlyOpened(h) == h # "none"

InitialisedAfter(h) == TRUE

NoLocals == [cap |-> "none", names |-> "none", dets |-> "none"]
NoStart == [opens |-> 0, fresh |-> FALSE]
Raised == <<"raised", "raised">>

NoReturn == [res |-> "none", val |-> Unassigned]

\* The module after import (opened = FALSE), or after a first get_camera has opened
\* the camera and returned.
InitSharedWith(opened) ==
    /\ initialised = [r \in Resources |-> r = "camera" /\ opened]
    /\ handle = [r \in Resources |->
                   IF r = "camera" /\ opened THEN <<CameraHandles[1], "none">>
                   ELSE Unassigned]
    /\ init_lock = "free"
    /\ spc = [t \in Threads |-> "idle"]
    /\ sres = [t \in Threads |-> "camera"]
    /\ sbody = [t \in Threads |-> <<>>]
    /\ slast = [t \in Threads |-> NoReturn]
    /\ factory_calls = [r \in Resources |-> IF r = "camera" /\ opened THEN 1 ELSE 0]
    /\ returns = [r \in Resources |->
                    IF r = "camera" /\ opened THEN {<<CameraHandles[1], "none">>} ELSE {}]
    /\ ncalls = 0
    /\ frame_lock = "free"
    /\ inference_lock = "free"
    /\ sop = [t \in Threads |-> "none"]
    /\ stodo = [t \in Threads |-> <<>>]
    /\ slocal = [t \in Threads |-> NoLocals]
    /\ sstart = [t \in Threads |-> NoStart]
    /\ sfail = [t \in Threads |-> FALSE]
    /\ open_failed = FALSE
    /\ release_log = <<>>
    /\ nops = 0

InitShared == InitSharedWith(FALSE)

\* A thread calls get_camera, get_yolo or get_face_detector.
SharedCall ==
    /\ UNCHANGED <<otherThanShared, opVars, open_failed>>
    /\ \E t \in Threads : \E r \in Resources :
           /\ spc[t] = "idle"
           /\ stodo[t] = <<>>
           /\ ncalls < MaxSharedCalls
           /\ ncalls' = ncalls + 1
           /\ sres' = [sres EXCEPT ![t] = r]
           /\ spc' = [spc EXCEPT ![t] = "fast"]
           /\ UNCHANGED <<initialised, handle, init_lock, sbody, slast, factory_calls,
                          returns>>

\* The unlocked test `if _x_initialised:`.
FastCheck ==
    /\ UNCHANGED <<otherThanShared, opVars, open_failed>>
    /\ \E t \in Threads :
           /\ spc[t] = "fast"
           /\ spc' = [spc EXCEPT ![t] = IF initialised[sres[t]] THEN "return" ELSE "acquire"]
           /\ UNCHANGED <<initialised, handle, init_lock, sres, sbody, slast,
                          factory_calls, returns, ncalls>>

\* `return _x` outside the lock: of the fast path, or after the with block.
Return ==
    /\ UNCHANGED <<otherThanShared, opVars, open_failed>>
    /\ \E t \in Threads :
           /\ spc[t] = "return"
           /\ returns' = [returns EXCEPT ![sres[t]] = @ \cup {handle[sres[t]]}]
           /\ slast' = [slast EXCEPT ![t] = [res |-> sres[t], val |-> handle[sres[t]]]]
           /\ spc' = [spc EXCEPT ![t] = "idle"]
           /\ UNCHANGED <<initialised, handle, init_lock, sres, sbody, factory_calls,
                          ncalls>>

\* `with _init_lock:` is entered.
Acquire ==
    /\ UNCHANGED <<otherThanShared, opVars, open_failed>>
    /\ \E t \in Threads :
           /\ spc[t] = "acquire"
           /\ init_lock = "free"
           /\ init_lock' = t
           /\ spc' = [spc EXCEPT ![t] = "locked"]
           /\ UNCHANGED <<initialised, handle, sres, sbody, slast, factory_calls,
                          returns, ncalls>>

\* The second test under the lock: `return _x` (the lock is released), or the
\* initialisation starts. In get_yolo, check_cuda or settings may raise before the
\* factory is reached: the call ends with the exception and the lock is released.
LockedCheck ==
    /\ UNCHANGED <<otherThanShared, opVars, open_failed>>
    /\ \E t \in Threads : \E raises \in BOOLEAN :
           /\ spc[t] = "locked"
           /\ (raises => sres[t] = "yolo" /\ ~initialised[sres[t]])
           /\ IF initialised[sres[t]]
                 THEN /\ returns' = [returns EXCEPT ![sres[t]] = @ \cup {handle[sres[t]]}]
                      /\ slast' = [slast EXCEPT ![t] =
                                     [res |-> sres[t], val |-> handle[sres[t]]]]
                      /\ init_lock' = "free"
                      /\ spc' = [spc EXCEPT ![t] = "idle"]
                      /\ UNCHANGED sbody
                 ELSE IF raises
                 THEN /\ init_lock' = "free"
                      /\ spc' = [spc EXCEPT ![t] = "idle"]
                      /\ slast' = [slast EXCEPT ![t] = [res |-> sres[t], val |-> Raised]]
                      /\ UNCHANGED <<sbody, returns>>
                 ELSE /\ sbody' = [sbody EXCEPT ![t] = InitBody(sres[t])]
                      /\ spc' = [spc EXCEPT ![t] = "init"]
                      /\ UNCHANGED <<init_lock, returns, slast>>
           /\ UNCHANGED <<initialised, handle, sres, factory_calls, ncalls>>

\* One statement of the locked initialisation.
InitStep ==
    /\ UNCHANGED <<otherThanShared, opVars>>
    /\ \E t \in Threads : \E outcome \in FactoryOutcomes(sres[t]) :
           /\ spc[t] = "init"
           /\ sbody[t] # <<>>
           /\ LET r == sres[t]
                  stmt == Head(sbody[t])
              IN /\ (stmt # "factory" => outcome = "ok")
                 /\ sbody' = [sbody EXCEPT ![t] = Tail(@)]
                 /\ CASE stmt = "factory" ->
                           /\ factory_calls' = [factory_calls EXCEPT ![r] =
                                                  IF outcome = "missing" THEN @ ELSE @ + 1]
                           /\ factory_calls[r] < Len(CameraHandles)
                           /\ handle' = [handle EXCEPT ![r] =
                                           <<FactoryValue(r, outcome, factory_calls[r] + 1),
                                             @[2]>>]
                           /\ UNCHANGED <<initialised, open_failed>>
                      [] stmt = "names" ->
                           /\ handle' = [handle EXCEPT ![r] =
                                           <<@[1], IF @[1] = "none" THEN "none"
                                                   ELSE "class_names">>]
                           /\ UNCHANGED <<factory_calls, initialised, open_failed>>
                      [] OTHER ->
                           /\ initialised' = [initialised EXCEPT ![r] =
                                                 InitialisedAfter(handle[r][1])]
                           /\ open_failed' = IF r = "camera" THEN handle[r][1] = "none"
                                              ELSE open_failed
                           /\ UNCHANGED <<factory_calls, handle>>
           /\ UNCHANGED <<init_lock, spc, sres, slast, returns, ncalls>>

\* The with block ends: the lock is released.
Release ==
    /\ UNCHANGED <<otherThanShared, opVars, open_failed>>
    /\ \E t \in Threads :
           /\ spc[t] = "init"
           /\ sbody[t] = <<>>
           /\ init_lock' = "free"
           /\ spc' = [spc EXCEPT ![t] = "return"]
           /\ UNCHANGED <<initialised, handle, sres, sbody, slast, factory_calls,
                          returns, ncalls>>

NextShared ==
    \/ SharedCall
    \/ FastCheck
    \/ Return
    \/ Acquire
    \/ LockedCheck
    \/ InitStep
    \/ Release

\* C20: for any interleaving of get_camera, get_yolo and get_face_detector callers,
\* without a release, each factory is called at most once, every caller of a resource
\* returns the same value, and the flag of a resource is never set while its handle
\* (or engine and class names) is still to be assigned.
C20_SingletonsInitialisedOnce ==
    \A r \in Resources :
        /\ factory_calls[r] <= 1
        /\ Cardinality(returns[r]) <= 1
        /\ \A v \in returns[r] : initialised[r] /\ v = handle[r]
        /\ \A t \in Threads :
               (initialised[r] /\ sres[t] = r /\ spc[t] = "init") => sbody[t] = <<>>

\* Both threads called get_yolo before it was initialised; the engine was loaded once
\* and both returned the engine with its class names.
C20_Witness ==
    /\ \A t \in Threads : slast[t] = [res |-> "yolo", val |-> <<"engine", "class_names">>]
    /\ factory_calls["yolo"] = 1
    /\ ncalls = 2
    /\ init_lock = "free"

(***************************************************************************)
(*        SHARED SINGLETONS: frames, inference, release, reconnect         *)
(***************************************************************************)

\* Operations started in the model.
MaxSharedOps == 2

Operations == {"get_camera", "get_yolo", "get_face_detector", "read_frame",
               "release_camera", "reconnect_camera", "run_inference_shared",
               "describe_current_scene"}

\* `with _frame_lock:` and `with _inference_lock:` wait until the lock is free.
CanAcquire_Unlocked(lock) == TRUE

CanAcquire(lock) == lock = "free"

\* release_camera sets _camera to None after the handle's release().
HandleAfterRelease_Kept(h) == h

HandleAfterRelease(h) == Unassigned

\* read_frame: get_camera, then the driver read under _frame_lock. A statement
\* names the next access to a lock, a global or a driver; the tests of locals that
\* precede it belong to it.
ReadFramePlan_LockFirst == <<"frame_acquire", "get_camera", "read_return">>

ReadFramePlan == <<"get_camera", "frame_acquire", "read_return">>

\* run_inference_shared: get_yolo, then the inference under _inference_lock.
RunInferencePlan == <<"get_yolo", "infer_acquire", "infer_return">>

\* release_camera: under _init_lock the handle's release(), `_camera = None`, then
\* `_camera_initialised = False`.
ReleasePlan == <<"rel_enter", "rel_return", "rel_flag">>

\* reconnect_camera: release_camera, then get_camera.
ReconnectPlan == ReleasePlan \o <<"get_camera">>

\* describe_current_scene: read_frame, get_yolo, run_inference_shared,
\* get_face_detector (detect_faces and the description use no shared state).
DescribePlan ==
    ReadFramePlan \o <<"get_yolo">> \o <<"names_check">> \o Tail(RunInferencePlan)
        \o <<"dets_check">>

Plan(op) ==
    CASE op = "read_frame" -> ReadFramePlan
      [] op = "run_inference_shared" -> RunInferencePlan
      [] op = "release_camera" -> ReleasePlan
      [] op = "reconnect_camera" -> ReconnectPlan
      [] op = "describe_current_scene" -> DescribePlan
      [] OTHER -> <<op>>

RECURSIVE DropUntil(_, _)
DropUntil(seq, stmt) ==
    IF seq = <<>> \/ Head(seq) = stmt THEN seq ELSE DropUntil(Tail(seq), stmt)

\* Thread t is at statement stmt of its operation, outside any get_* call.
At(t, stmt) == spc[t] = "idle" /\ stodo[t] # <<>> /\ Head(stodo[t]) = stmt

Advance(t) == [stodo EXCEPT ![t] = Tail(@)]
Finish(t) == [stodo EXCEPT ![t] = <<>>]

InDriverRead(t) == At(t, "read_return")
InInference(t) == At(t, "infer_return")
InHandleRelease(t) == At(t, "rel_return")

\* A thread starts one of the operations of the module.
OpStart ==
    /\ UNCHANGED otherThanShared
    /\ \E t \in Threads : \E op \in Operations :
           /\ spc[t] = "idle"
           /\ stodo[t] = <<>>
           /\ nops < MaxSharedOps
           /\ nops' = nops + 1
           /\ sop' = [sop EXCEPT ![t] = op]
           /\ stodo' = [stodo EXCEPT ![t] = Plan(op)]
           /\ slocal' = [slocal EXCEPT ![t] = NoLocals]
           /\ slast' = [slast EXCEPT ![t] = NoReturn]
           /\ sfail' = [sfail EXCEPT ![t] = open_failed]
           /\ UNCHANGED <<initialised, handle, init_lock, spc, sres, sbody, factory_calls,
                          returns, ncalls, open_failed, frame_lock, inference_lock,
                          sstart, release_log>>

\* Thread t enters get_camera, get_yolo or get_face_detector.
EnterGet(t, r) ==
    /\ sres' = [sres EXCEPT ![t] = r]
    /\ spc' = [spc EXCEPT ![t] = "fast"]
    /\ sstart' = IF r = "camera"
                    THEN [sstart EXCEPT ![t] = [opens |-> factory_calls["camera"],
                                                fresh |-> /\ ~initialised["camera"]
                                                          /\ init_lock = "free"]]
                    ELSE sstart

\* The operation calls get_camera, get_yolo or get_face_detector.
StartGet ==
    /\ UNCHANGED otherThanShared
    /\ \E t \in Threads : \E r \in Resources :
           /\ \/ r = "camera" /\ At(t, "get_camera")
              \/ r = "yolo" /\ At(t, "get_yolo")
              \/ r = "face" /\ At(t, "get_face_detector")
           /\ stodo' = Advance(t)
           /\ EnterGet(t, r)
           /\ UNCHANGED sop
           /\ UNCHANGED <<initialised, handle, init_lock, sbody, slast, factory_calls,
                          returns, ncalls, open_failed, frame_lock, inference_lock,
                          slocal, sfail, release_log, nops>>

\* read_frame: `cap = get_camera(); if cap is None: return None`, else
\* `with _frame_lock:` and the driver read `_read(cap)` begins.
FrameAcquire ==
    /\ UNCHANGED otherThanShared
    /\ \E t \in Threads :
           /\ At(t, "frame_acquire")
           /\ IF slast[t].res = "camera" /\ slast[t].val[1] = "none"
                 THEN /\ stodo' = Finish(t)
                      /\ UNCHANGED <<frame_lock, slocal>>
                 ELSE /\ CanAcquire(frame_lock)
                      /\ frame_lock' = t
                      /\ slocal' = [slocal EXCEPT ![t].cap = slast[t].val[1]]
                      /\ stodo' = Advance(t)
           /\ UNCHANGED sop
           /\ UNCHANGED <<initialised, handle, init_lock, spc, sres, sbody, slast,
                          factory_calls, returns, ncalls, open_failed, inference_lock,
                          sstart, sfail, release_log, nops>>

\* The driver read returns a frame, returns None or raises; the with block ends.
\* Without a frame read_frame is over, and so is describe_current_scene.
ReadReturn ==
    /\ UNCHANGED otherThanShared
    /\ \E t \in Threads : \E frame \in {"frame", "none", "raised"} :
           /\ At(t, "read_return")
           /\ frame_lock' = IF frame_lock = t THEN "free" ELSE frame_lock
           /\ stodo' = IF frame = "frame" THEN Advance(t) ELSE Finish(t)
           /\ UNCHANGED sop
           /\ UNCHANGED <<initialised, handle, init_lock, spc, sres, sbody, slast,
                          factory_calls, returns, ncalls, open_failed, inference_lock,
                          slocal, sstart, sfail, release_log, nops>>

\* describe_current_scene: `_, class_names = get_yolo()`, then run_inference_shared
\* calls get_yolo. An exception of get_yolo ends the operation.
NamesCheck ==
    /\ UNCHANGED otherThanShared
    /\ \E t \in Threads :
           /\ At(t, "names_check")
           /\ slocal' = [slocal EXCEPT ![t].names = slast[t].val[2]]
           /\ IF slast[t].val = Raised
                 THEN /\ stodo' = Finish(t)
                      /\ UNCHANGED <<sres, spc, sstart>>
                 ELSE /\ stodo' = Advance(t)
                      /\ EnterGet(t, "yolo")
           /\ UNCHANGED sop
           /\ UNCHANGED <<initialised, handle, init_lock, sbody, slast, factory_calls,
                          returns, ncalls, open_failed, frame_lock, inference_lock,
                          sfail, release_log, nops>>

\* run_inference_shared: `engine, _ = get_yolo(); if engine is None: return []`, else
\* `with _inference_lock:` and `run_inference(engine, frame)` begins.
InferAcquire ==
    /\ UNCHANGED otherThanShared
    /\ \E t \in Threads :
           /\ At(t, "infer_acquire")
           /\ IF slast[t].val = Raised
                 THEN /\ stodo' = Finish(t)
                      /\ UNCHANGED inference_lock
                 ELSE IF slast[t].val[1] = "none"
                 THEN /\ stodo' = [stodo EXCEPT ![t] = Tail(Tail(@))]
                      /\ UNCHANGED inference_lock
                 ELSE /\ CanAcquire(inference_lock)
                      /\ inference_lock' = t
                      /\ stodo' = Advance(t)
           /\ UNCHANGED sop
           /\ UNCHANGED <<initialised, handle, init_lock, spc, sres, sbody, slast,
                          factory_calls, returns, ncalls, open_failed, frame_lock,
                          slocal, sstart, sfail, release_log, nops>>

\* The inference returns detections, returns an empty list or raises; the with block
\* ends.
InferReturn ==
    /\ UNCHANGED otherThanShared
    /\ \E t \in Threads : \E dets \in {"dets", "none", "raised"} :
           /\ At(t, "infer_return")
           /\ inference_lock' = IF inference_lock = t THEN "free" ELSE inference_lock
           /\ slocal' = [slocal EXCEPT ![t].dets = dets]
           /\ stodo' = IF dets = "raised" THEN Finish(t) ELSE Advance(t)
           /\ UNCHANGED sop
           /\ UNCHANGED <<initialised, handle, init_lock, spc, sres, sbody, slast,
                          factory_calls, returns, ncalls, open_failed, frame_lock,
                          sstart, sfail, release_log, nops>>

\* describe_current_scene: `if not dets and class_names is None: return ...`, else
\* get_face_detector is called.
DetsCheck ==
    /\ UNCHANGED otherThanShared
    /\ \E t \in Threads :
           /\ At(t, "dets_check")
           /\ stodo' = Finish(t)
           /\ IF slocal[t].dets = "none" /\ slocal[t].names = "none"
                 THEN UNCHANGED <<sres, spc, sstart>>
                 ELSE EnterGet(t, "face")
           /\ UNCHANGED sop
           /\ UNCHANGED <<initialised, handle, init_lock, sbody, slast, factory_calls,
                          returns, ncalls, open_failed, frame_lock, inference_lock,
                          slocal, sfail, release_log, nops>>

\* release_camera: `with _init_lock:`, `if _camera is not None:` and
\* `_camera.release()` begins.
RelEnter ==
    /\ UNCHANGED otherThanShared
    /\ \E t \in Threads :
           /\ At(t, "rel_enter")
           /\ CanAcquire(init_lock)
           /\ init_lock' = t
           /\ IF handle["camera"][1] = "none"
                 THEN /\ stodo' = [stodo EXCEPT ![t] = DropUntil(@, "rel_flag")]
                      /\ UNCHANGED release_log
                 ELSE /\ release_log' = Append(release_log, handle["camera"][1])
                      /\ stodo' = Advance(t)
           /\ UNCHANGED sop
           /\ UNCHANGED <<initialised, handle, spc, sres, sbody, slast, factory_calls,
                          returns, ncalls, open_failed, frame_lock, inference_lock,
                          slocal, sstart, sfail, nops>>

\* release() returns or raises (the exception is swallowed); `_camera = None`.
RelReturn ==
    /\ UNCHANGED otherThanShared
    /\ \E t \in Threads :
           /\ At(t, "rel_return")
           /\ handle' = [handle EXCEPT !["camera"] = HandleAfterRelease(@)]
           /\ stodo' = Advance(t)
           /\ UNCHANGED sop
           /\ UNCHANGED <<initialised, init_lock, spc, sres, sbody, slast, factory_calls,
                          returns, ncalls, open_failed, frame_lock, inference_lock,
                          slocal, sstart, sfail, release_log, nops>>

\* release_camera: `_camera_initialised = False`; the with block ends.
RelFlag ==
    /\ UNCHANGED otherThanShared
    /\ \E t \in Threads :
           /\ At(t, "rel_flag")
           /\ initialised' = [initialised EXCEPT !["camera"] = FALSE]
           /\ init_lock' = IF init_lock = t THEN "free" ELSE init_lock
           /\ open_failed' = FALSE
           /\ sfail' = [u \in Threads |-> FALSE]
           /\ stodo' = Advance(t)
           /\ UNCHANGED sop
           /\ UNCHANGED <<handle, spc, sres, sbody, slast, factory_calls, returns, ncalls,
                          frame_lock, inference_lock, slocal, sstart, release_log, nops>>

\* The steps that need no new call.
ProgressCamera ==
    \/ FastCheck
    \/ Return
    \/ Acquire
    \/ LockedCheck
    \/ InitStep
    \/ Release
    \/ StartGet
    \/ FrameAcquire
    \/ ReadReturn
    \/ NamesCheck
    \/ InferAcquire
    \/ InferReturn
    \/ DetsCheck
    \/ RelEnter
    \/ RelReturn
    \/ RelFlag

NextCamera ==
    \/ OpStart
    \/ ProgressCamera

Busy(t) == spc[t] # "idle" \/ stodo[t] # <<>>

LocksHeld(t) ==
    {l \in {"init", "frame", "inference"} :
        \/ l = "init" /\ init_lock = t
        \/ l = "frame" /\ frame_lock = t
        \/ l = "inference" /\ inference_lock = t}

Released == {release_log[i] : i \in 1..Len(release_log)}

\* C21: for any concurrent read_frame and run_inference_shared callers, at most one
\* thread at a time is inside the camera driver read, and at most one thread at a time
\* is inside the detector inference call; the thread inside holds the lock.
C21_DriverAndInferenceSerialised ==
    /\ Cardinality({t \in Threads : InDriverRead(t)}) <= 1
    /\ Cardinality({t \in Threads : InInference(t)}) <= 1
    /\ \A t \in Threads :
           /\ InDriverRead(t) => frame_lock = t
           /\ InInference(t) => inference_lock = t

\* One thread is inside the driver read while the other, holding a camera handle,
\* waits for _frame_lock.
C21_Witness ==
    \E t, u \in Threads :
        /\ t # u
        /\ InDriverRead(t)
        /\ At(u, "frame_acquire")
        /\ slast[u].res = "camera"
        /\ slast[u].val[1] # "none"

\* C22: a concurrent mix of get_camera, read_frame, release_camera, reconnect_camera,
\* get_yolo, run_inference_shared, get_face_detector and describe_current_scene calls
\* cannot deadlock: no thread ever holds two of the three locks at the same time, and
\* every call eventually returns, given that the driver calls return.
C22_NoDeadlock ==
    /\ [](\A t \in Threads : Cardinality(LocksHeld(t)) <= 1)
    /\ \A t \in Threads : Busy(t) ~> ~Busy(t)

\* Both threads ran describe_current_scene to its end, through all three locks.
C22_Witness ==
    \A t \in Threads :
        /\ sop[t] = "describe_current_scene"
        /\ ~Busy(t)
        /\ slocal[t].cap # "none"
        /\ slocal[t].dets = "dets"
        /\ slast[t].res = "face"

\* C23: release_camera is idempotent: release() is called at most once per opened
\* handle and never on a null handle, a release_camera that finds no handle calls
\* nothing, and a get_camera that begins after a release returns only after
\* open_camera was called again, with a handle opened since or with null.
C23_ReleaseIdempotent ==
    /\ \A i, j \in 1..Len(release_log) : release_log[i] = release_log[j] => i = j
    /\ "none" \notin Released
    /\ \A t \in Threads :
           InHandleRelease(t) => handle["camera"][1] = release_log[Len(release_log)]
    /\ (init_lock = "free" /\ ~initialised["camera"]) => handle["camera"] = Unassigned
    /\ \A t \in Threads :
           (spc[t] = "idle" /\ slast[t].res = "camera" /\ sstart[t].fresh) =>
               /\ factory_calls["camera"] > sstart[t].opens
               /\ \/ slast[t].val[1] = "none"
                  \/ \E n \in (sstart[t].opens + 1)..factory_calls["camera"] :
                         slast[t].val[1] = CameraHandles[n]

\* The camera was open; one thread's release_camera released the handle, the other's
\* reconnect_camera then released nothing, opened the camera again and got the new
\* handle.
C23_Witness ==
    \E t, u \in Threads :
        /\ sop[u] = "release_camera" /\ ~Busy(u)
        /\ sop[t] = "reconnect_camera" /\ ~Busy(t)
        /\ release_log = <<CameraHandles[1]>>
        /\ sstart[t].fresh
        /\ slast[t] = [res |-> "camera", val |-> <<CameraHandles[2], "none">>]

\* C24: when opening the camera failed, the camera is recorded as initialised with a
\* null handle; until release_camera or reconnect_camera clears the flag, open_camera
\* is not called again, and every get_camera and read_frame begun since returns null
\* without a driver read.
C24_FailedOpenIsCached ==
    /\ [](/\ open_failed => initialised["camera"] /\ handle["camera"] = Unassigned
          /\ \A t \in Threads :
                 sfail[t] =>
                     /\ open_failed
                     /\ ~InDriverRead(t)
                     /\ (sres[t] = "camera" /\ spc[t] # "idle") =>
                            spc[t] \in {"fast", "return"}
                     /\ slast[t].res = "camera" => slast[t].val = Unassigned)
    /\ [][open_failed => factory_calls'["camera"] = factory_calls["camera"]]_vars

\* A read_frame that began after the failed open returned null; open_camera was
\* called once.
C24_Witness ==
    \E t \in Threads :
        /\ sfail[t]
        /\ sop[t] = "read_frame"
        /\ ~Busy(t)
        /\ slast[t] = [res |-> "camera", val |-> Unassigned]
        /\ factory_calls["camera"] = 1

\* C30: for every interleaving of read_frame or describe_current_scene callers with
\* release_camera or reconnect_camera, no thread is inside a driver read on a handle
\* whose release() has been called or is being called.
C30_NoReadOfReleasedHandle ==
    \A t \in Threads : InDriverRead(t) => slocal[t].cap \notin Released

(***************************************************************************)
(*                        TRAJECTORY PREDICTOR                             *)
(***************************************************************************)

\* predict_all calls made, and tracked objects per call.
MaxPredictCalls == 2
MaxObjects == 2

MIN_SPEED_PX_SEC == 5
prediction_steps == 6
prediction_horizon_sec == 3
frame_width == 320
frame_height == 240

\* Tracked objects: a track id, a velocity in px/s (speeds 3, 5, 6 and 12) and the
\* centre of the box (the image centre, or left of it).
TrackIds == {1, 2}
Velocities == {<<3, 0>>, <<3, 4>>, <<6, 0>>, <<0, -12>>}
Centres == {<<160, 120>>, <<60, 120>>}
TrackedObjects == [track_id : TrackIds, velocity : Velocities, centre : Centres]
TrackedLists == UNION {[1..n -> TrackedObjects] : n \in 0..MaxObjects}

\* speed_arr squared: the comparisons with a speed are made on squares.
SpeedSq(v) == v[1] * v[1] + v[2] * v[2]

\* moving_mask = speed_arr >= _MIN_SPEED_PX_SEC.
IsMoving(v) == SpeedSq(v) >= MIN_SPEED_PX_SEC * MIN_SPEED_PX_SEC

\* _classify_behaviour. dot > speed * 0.5 is 2 * num > speed * to_cam_mag with
\* num = vx * to_cam_x + vy * to_cam_y, compared on squares.
ClassifyBehaviour(v, c) ==
    LET to_cam_x == frame_width \div 2 - c[1]
        to_cam_y == frame_height \div 2 - c[2]
        mag_sq == to_cam_x * to_cam_x + to_cam_y * to_cam_y
        num == v[1] * to_cam_x + v[2] * to_cam_y
        cross == v[1] * to_cam_y - v[2] * to_cam_x
        over(x) == 4 * x * x > SpeedSq(v) * mag_sq
    IN IF SpeedSq(v) < 100 THEN "stationary"
       ELSE IF mag_sq < 1 THEN "orbiting"
       ELSE IF num > 0 /\ over(num) THEN "approaching"
       ELSE IF num < 0 /\ over(num) THEN "receding"
       ELSE IF over(cross) THEN "crossing"
       ELSE "moving"

\* The waypoints of a moving object: at step k the time is k * horizon / steps, the
\* acceleration 0.3 * (v - prev), and p = c + v * t + 0.5 * a * t^2. Positions are kept
\* in units of 1 / (20 * steps^2) px, times in units of 1 / steps s.
Waypoints(c, v, prev) ==
    LET h == prediction_horizon_sec
        n == prediction_steps
        coord(i, k) == 20 * n * n * c[i] + 20 * n * h * k * v[i]
                           + 3 * h * h * k * k * (v[i] - prev[i])
    IN [k \in 1..n |-> <<coord(1, k), coord(2, k), h * k>>]

\* The velocity history as the loop at lines 188-192 leaves it after objects 1..i,
\* and the previous velocity object i is compared with.
RECURSIVE HistoryAfter(_, _, _)
HistoryAfter(hist, objs, i) ==
    IF i = 0 THEN hist
    ELSE LET before == HistoryAfter(hist, objs, i - 1)
             o == objs[i]
         IN [t \in DOMAIN before \cup {o.track_id} |->
                IF t = o.track_id THEN o.velocity ELSE before[t]]

PrevVelocity(hist, objs, i) ==
    LET before == HistoryAfter(hist, objs, i - 1)
    IN IF objs[i].track_id \in DOMAIN before THEN before[objs[i].track_id]
       ELSE objs[i].velocity

\* The PredictedTrajectory of object i (the collision fields, which need depth and
\* m/s velocities, are not part of the model).
Trajectory(hist, objs, i) ==
    LET o == objs[i]
    IN IF ~IsMoving(o.velocity)
          THEN [track_id |-> o.track_id, velocity_px |-> o.velocity,
                waypoints |-> <<>>, behaviour |-> "stationary"]
          ELSE [track_id |-> o.track_id, velocity_px |-> o.velocity,
                waypoints |-> Waypoints(o.centre, o.velocity, PrevVelocity(hist, objs, i)),
                behaviour |-> ClassifyBehaviour(o.velocity, o.centre)]

\* The history predict_all leaves: with no tracked object it returns at once; else
\* the entries of the ids of this call are kept.
HistoryAfterCall(hist, objs) ==
    IF Len(objs) = 0 THEN hist
    ELSE LET after == HistoryAfter(hist, objs, Len(objs))
             active_ids == {objs[i].track_id : i \in 1..Len(objs)}
         IN [t \in DOMAIN after \cap active_ids |-> after[t]]

InitTrajectory ==
    /\ prev_velocities = <<>>
    /\ trajectories = <<>>
    /\ tracked_ids = {}
    /\ predict_calls = 0

predict_all ==
    /\ UNCHANGED otherThanTrajectory
    /\ predict_calls < MaxPredictCalls
    /\ \E objs \in TrackedLists :
           /\ trajectories' = [i \in 1..Len(objs) |-> Trajectory(prev_velocities, objs, i)]
           /\ prev_velocities' = HistoryAfterCall(prev_velocities, objs)
           /\ tracked_ids' = {objs[i].track_id : i \in 1..Len(objs)}
           /\ predict_calls' = predict_calls + 1

\* TrajectoryPredictor.reset.
reset_predictor ==
    /\ UNCHANGED otherThanTrajectory
    /\ prev_velocities # <<>>
    /\ prev_velocities' = <<>>
    /\ UNCHANGED <<trajectories, tracked_ids, predict_calls>>

NextTrajectory ==
    \/ predict_all
    \/ reset_predictor

\* C25: every PredictedTrajectory returned by predict_all whose behaviour is
\* stationary has an empty waypoints list.
C25_StationaryHasNoWaypoints ==
    \A i \in 1..Len(trajectories) :
        trajectories[i].behaviour = "stationary" => trajectories[i].waypoints = <<>>

\* C26: after every predict_all call returns, the velocity-history map has no entry
\* whose track_id was absent from the tracked objects of that call.
C26_HistoryOnlyOfCurrentTracks ==
    predict_calls > 0 => DOMAIN prev_velocities \subseteq tracked_ids

(***************************************************************************)
(*                        EGO-MOTION ESTIMATOR                             *)
(***************************************************************************)

\* estimate_ego_motion calls made.
MaxEgoCalls == 5

CACHE_MAX_FRAMES == 3

\* Lengths are in tenths of a pixel per frame: 15 is the default motion_threshold 1.5.
MotionThresholds == {10, 15}
StaticMagnitude == 15
WalkingMagnitude == 50
EgoMeanMags == {0, 12, 15, 60}
\* The median flow of the inliers (or of all points).
EgoVectors == {<<0, 0>>, <<10, 0>>, <<30, 0>>, <<0, -30>>, <<20, 20>>}
\* cv2.findFundamentalMat: no matrix, a matrix with at most 3 inliers, or with more.
RansacOutcomes == {"degenerate", "few_inliers", "inliers"}

\* EgoMotionResult(): the fields the cache and the classification decide.
DefaultResult ==
    [ego |-> <<0, 0>>, is_moving |-> FALSE, motion_type |-> "static", fit |-> "none"]
NoEgoResult == [DefaultResult EXCEPT !.fit = "no result"]

\* `if mean_mag < motion_threshold:` the camera is static.
BelowThreshold_Inclusive(mean_mag, motion_threshold) == mean_mag <= motion_threshold

BelowThreshold(mean_mag, motion_threshold) == mean_mag < motion_threshold

\* _classify_motion.
ClassifyMotion(ego, mean_mag) ==
    IF ego[1] * ego[1] + ego[2] * ego[2] < StaticMagnitude * StaticMagnitude THEN "static"
    ELSE IF Abs(ego[1]) > Abs(ego[2]) * 2 THEN "panning"
    ELSE IF Abs(ego[2]) > Abs(ego[1]) * 2 THEN "tilting"
    ELSE IF mean_mag > WalkingMagnitude THEN "walking"
    ELSE "moving"

\* A get that never lets the cached result expire.
CacheGet_NoExpiry(mean_mag, motion_threshold) ==
    IF cache_result = NoEgoResult THEN "miss"
    ELSE IF BelowThreshold(cached_mean_mag, motion_threshold)
              # BelowThreshold(mean_mag, motion_threshold) THEN "invalidate"
    ELSE "hit"

\* _EgoMotionCache.get: "miss", "invalidate" or "hit".
CacheGet(mean_mag, motion_threshold) ==
    IF frames_remaining <= 0 \/ cache_result = NoEgoResult THEN "miss"
    ELSE IF BelowThreshold(cached_mean_mag, motion_threshold)
              # BelowThreshold(mean_mag, motion_threshold) THEN "invalidate"
    ELSE "hit"

\* The result computed on a cache miss.
ComputedResult(mean_mag, motion_threshold, ransac, ego) ==
    IF BelowThreshold(mean_mag, motion_threshold)
       THEN [DefaultResult EXCEPT !.fit = "static"]
       ELSE [ego |-> ego, is_moving |-> TRUE,
             motion_type |-> ClassifyMotion(ego, mean_mag), fit |-> ransac]

NoEgoCall ==
    [called |-> FALSE, enough |-> FALSE, mean_mag |-> 0, motion_threshold |-> 0,
     from_cache |-> FALSE, stored_under |-> 0, result |-> NoEgoResult,
     hits_before |-> 0, cached_before |-> None, cache_after |-> "untouched"]

InitEgo ==
    /\ cache_result = NoEgoResult
    /\ frames_remaining = 0
    /\ cached_mean_mag = 0
    /\ cache_threshold = 0
    /\ lastEgo = NoEgoCall
    /\ ego_calls = 0
    /\ hits_since_store = 0

\* _EgoMotionCache.store: only a static result is kept. The get before it has set
\* _cached_mean_mag to 0.0 when it invalidated the cache.
CacheStore(result, mean_mag, motion_threshold, invalidated) ==
    IF ~result.is_moving
       THEN /\ cache_result' = result
            /\ frames_remaining' = CACHE_MAX_FRAMES
            /\ cached_mean_mag' = mean_mag
            /\ cache_threshold' = motion_threshold
            /\ hits_since_store' = 0
       ELSE /\ cache_result' = NoEgoResult
            /\ frames_remaining' = 0
            /\ cached_mean_mag' = IF invalidated THEN 0 ELSE cached_mean_mag
            /\ UNCHANGED <<cache_threshold, hits_since_store>>

\* estimate_ego_motion: too few points (enough = FALSE) return the default result;
\* else the cache is asked, and on a miss the result is computed and stored.
estimate_ego_motion ==
    /\ UNCHANGED otherThanEgo
    /\ ego_calls < MaxEgoCalls
    /\ ego_calls' = ego_calls + 1
    /\ \E enough \in BOOLEAN : \E mean_mag \in EgoMeanMags :
       \E motion_threshold \in MotionThresholds :
       \E ransac \in RansacOutcomes : \E ego \in EgoVectors :
           LET call == [called |-> TRUE, enough |-> enough,
                        mean_mag |-> IF enough THEN mean_mag ELSE 0,
                        motion_threshold |-> motion_threshold, from_cache |-> FALSE,
                        stored_under |-> 0, result |-> DefaultResult,
                        hits_before |-> hits_since_store,
                        cached_before |-> IF cache_result = NoEgoResult
                                             THEN None ELSE cached_mean_mag,
                        cache_after |-> "untouched"]
               computed == ComputedResult(mean_mag, motion_threshold, ransac, ego)
           IN IF ~enough
                 THEN /\ mean_mag = 0 /\ ransac = "degenerate" /\ ego = <<0, 0>>
                      /\ lastEgo' = call
                      /\ UNCHANGED <<cache_result, frames_remaining, cached_mean_mag,
                                     cache_threshold, hits_since_store>>
                 ELSE IF CacheGet(mean_mag, motion_threshold) = "hit"
                 THEN /\ ransac = "degenerate" /\ ego = <<0, 0>>
                      /\ frames_remaining' = frames_remaining - 1
                      /\ hits_since_store' = hits_since_store + 1
                      /\ lastEgo' = [call EXCEPT !.from_cache = TRUE,
                                                 !.stored_under = cache_threshold,
                                                 !.result = cache_result,
                                                 !.cache_after = "hit"]
                      /\ UNCHANGED <<cache_result, cached_mean_mag, cache_threshold>>
                 ELSE /\ (BelowThreshold(mean_mag, motion_threshold) =>
                              ransac = "degenerate" /\ ego = <<0, 0>>)
                      /\ lastEgo' = [call EXCEPT !.result = computed,
                                                 !.cache_after =
                                                     IF computed.is_moving
                                                        THEN "cleared" ELSE "stored"]
                      /\ CacheStore(computed, mean_mag, motion_threshold,
                                    CacheGet(mean_mag, motion_threshold) = "invalidate")

\* reset_ego_cache: _ego_cache.invalidate().
reset_ego_cache ==
    /\ UNCHANGED otherThanEgo
    /\ cache_result # NoEgoResult \/ frames_remaining # 0 \/ cached_mean_mag # 0
    /\ cache_result' = NoEgoResult
    /\ frames_remaining' = 0
    /\ cached_mean_mag' = 0
    /\ UNCHANGED <<cache_threshold, lastEgo, ego_calls, hits_since_store>>

NextEgo ==
    \/ estimate_ego_motion
    \/ reset_ego_cache

EgoMagnitudeAtLeast(ego, motion_threshold) ==
    ego[1] * ego[1] + ego[2] * ego[2] >= motion_threshold * motion_threshold

CacheExpires ==
    /\ hits_since_store <= CACHE_MAX_FRAMES
    /\ (cache_result # NoEgoResult => ~cache_result.is_moving)
    /\ (lastEgo.called /\ lastEgo.enough /\ lastEgo.hits_before = CACHE_MAX_FRAMES =>
           /\ ~lastEgo.from_cache
           /\ (lastEgo.mean_mag < lastEgo.motion_threshold =>
                  lastEgo.cache_after = "stored"))
    /\ (lastEgo.called /\ lastEgo.enough /\ ~lastEgo.from_cache
            /\ lastEgo.mean_mag >= lastEgo.motion_threshold =>
           lastEgo.result.is_moving /\ lastEgo.cache_after = "cleared")

MaxReminders == 2

ReminderTexts == {"", "Buy eggs", "Clean desk"}
ReminderIndexes == -1..(MaxReminders + 1)

\* `if index < 0 or index >= len(reminders): raise IndexError`.
InRange_PythonIndexing(index, n) == index >= 0 - n /\ index < n

InRange(index, n) == index >= 0 /\ index < n

\* The position of reminders[index] in the list.
Position(index, n) == IF index < 0 THEN index + n + 1 ELSE index + 1

\* save_reminders: the list is written, or the write fails and is only logged.
Saved(list, save_ok) == IF save_ok THEN list ELSE reminders

RemoveAt(list, pos) ==
    [i \in 1..(Len(list) - 1) |-> IF i < pos THEN list[i] ELSE list[i + 1]]

NoRequest ==
    [op |-> "none", index |-> 0, before |-> <<>>, status |-> 0, error |-> "", done |-> FALSE]

InitReminders ==
    /\ reminders = <<>>
    /\ lastReq = NoRequest

\* GET /api/reminders.
api_get_reminders ==
    /\ UNCHANGED otherThanReminders
    /\ lastReq' = [NoRequest EXCEPT !.op = "get", !.before = reminders, !.status = 200]
    /\ UNCHANGED reminders

\* POST /api/reminders: 400 without a text, else add_reminder.
api_create_reminder ==
    /\ UNCHANGED otherThanReminders
    /\ \E text \in ReminderTexts : \E save_ok \in BOOLEAN :
           IF text = ""
              THEN /\ lastReq' = [NoRequest EXCEPT !.op = "create", !.before = reminders,
                                                   !.status = 400,
                                                   !.error = "text is required"]
                   /\ UNCHANGED reminders
              ELSE /\ Len(reminders) < MaxReminders
                   /\ reminders' = Saved(Append(reminders, [text |-> text, done |-> FALSE]),
                                         save_ok)
                   /\ lastReq' = [NoRequest EXCEPT !.op = "create", !.before = reminders,
                                                   !.status = 200]

\* PATCH /api/reminders/{index}: toggle_reminder, its IndexError answered with 404.
api_toggle_reminder ==
    /\ UNCHANGED otherThanReminders
    /\ \E index \in ReminderIndexes : \E save_ok \in BOOLEAN :
           LET n == Len(reminders)
               pos == Position(index, n)
               done == ~reminders[pos].done
           IN IF ~InRange(index, n)
                 THEN /\ save_ok
                      /\ lastReq' = [NoRequest EXCEPT !.op = "toggle", !.index = index,
                                                      !.before = reminders, !.status = 404,
                                                      !.error = "IndexError"]
                      /\ UNCHANGED reminders
                 ELSE /\ reminders' = Saved([reminders EXCEPT ![pos].done = done], save_ok)
                      /\ lastReq' = [NoRequest EXCEPT !.op = "toggle", !.index = index,
                                                      !.before = reminders, !.status = 200,
                                                      !.done = done]

\* DELETE /api/reminders/{index}: delete_reminder, its IndexError answered with 404.
api_delete_reminder ==
    /\ UNCHANGED otherThanReminders
    /\ \E index \in ReminderIndexes : \E save_ok \in BOOLEAN :
           LET n == Len(reminders)
               pos == Position(index, n)
           IN IF ~InRange(index, n)
                 THEN /\ save_ok
                      /\ lastReq' = [NoRequest EXCEPT !.op = "delete", !.index = index,
                                                      !.before = reminders, !.status = 404,
                                                      !.error = "IndexError"]
                      /\ UNCHANGED reminders
                 ELSE /\ reminders' = Saved(RemoveAt(reminders, pos), save_ok)
                      /\ lastReq' = [NoRequest EXCEPT !.op = "delete", !.index = index,
                                                      !.before = reminders, !.status = 200]

NextReminders ==
    \/ api_get_reminders
    \/ api_create_reminder
    \/ api_toggle_reminder
    \/ api_delete_reminder

\* C28: toggle_reminder and delete_reminder (the PATCH and DELETE endpoints) called
\* with an index below 0 or at least the number of stored reminders produce a
\* not-found error (IndexError, HTTP 404) and leave the stored list unchanged.
C28_OutOfRangeIsNotFound ==
    (/\ lastReq.op \in {"toggle", "delete"}
     /\ (lastReq.index < 0 \/ lastReq.index >= Len(lastReq.before))) =>
        /\ lastReq.status = 404
        /\ lastReq.error = "IndexError"
        /\ reminders = lastReq.before

\* A toggle with index -1 on a non-empty list was answered 404.
C28_Witness ==
    /\ lastReq.op = "toggle"
    /\ lastReq.index = -1
    /\ Len(lastReq.before) = MaxReminders
    /\ lastReq.status = 404
    /\ reminders = lastReq.before

(***************************************************************************)
(*                          PROXIMITY ALERTER                              *)
(***************************************************************************)

\* check_proximity calls made, and where the clock of the model stops.
MaxProximityCalls == 3
MaxProximityTime == 13
\* Objects in one tracked_objects list.
MaxProximityObjects == 2

\* Seconds.
ALERT_COOLDOWN_SEC == 5
\* Distances are in centimetres: 0.5 m, 1.5 m and 3.0 m.
CRITICAL_DISTANCE_M == 50
WARNING_DISTANCE_M == 150
NOTICE_DISTANCE_M == 300

ClassNames == {"person", "chair"}
Levels == {"critical", "warning", "notice"}
\* The key "{level}_{class_name}".
Zones == Levels \X ClassNames
NoZone == <<"none", "none">>

\* obj["velocity"].
Still == <<0, 0>>
Approaching == <<0, -10>>
\* Tracked objects: two very close ones of different classes, a near one, one further away
\* approaching or not, and objects without a usable or near enough depth. The depths
\* are absent, not positive, normalised (at most 100) or disparities (above 100); the
\* divisions of _relative_to_meters are exact for them.
ProximityObjects ==
    {[class_name |-> "person", depth |-> 2000, velocity |-> Still],
     [class_name |-> "chair", depth |-> 2000, velocity |-> Still],
     [class_name |-> "person", depth |-> 5, velocity |-> Approaching],
     [class_name |-> "person", depth |-> 200, velocity |-> Approaching],
     [class_name |-> "person", depth |-> 200, velocity |-> Still],
     [class_name |-> "chair", depth |-> None, velocity |-> Still],
     [class_name |-> "chair", depth |-> 0, velocity |-> Still],
     [class_name |-> "chair", depth |-> 125, velocity |-> Approaching]}
ProximityLists ==
    UNION {[1..n -> ProximityObjects] : n \in 0..MaxProximityObjects}
\* What time.monotonic() can return at the first call: its reference point is undefined.
InitialClocks == {3, 5}
\* Seconds between two calls.
ClockSteps == {1, 4}

\* _relative_to_meters, in centimetres; None when relative_depth <= 0.
RelativeToMeters(relative_depth) ==
    IF relative_depth <= 0 THEN None
    ELSE LET meters == IF relative_depth > 100
                          THEN 50000 \div Max2(relative_depth, 1)
                          ELSE 500 \div relative_depth
         IN Min2(Max2(meters, 10), 2000)

\* The zone an object falls into, NoZone when it is skipped.
ZoneOf(obj) ==
    LET depth_m == RelativeToMeters(obj.depth)
        approaching == obj.velocity[2] < -5
    IN IF obj.depth = None THEN NoZone
       ELSE IF depth_m = None \/ depth_m > NOTICE_DISTANCE_M THEN NoZone
       ELSE IF depth_m < CRITICAL_DISTANCE_M THEN <<"critical", obj.class_name>>
       ELSE IF depth_m < WARNING_DISTANCE_M THEN <<"warning", obj.class_name>>
       ELSE IF depth_m < NOTICE_DISTANCE_M /\ approaching THEN <<"notice", obj.class_name>>
       ELSE NoZone

\* _last_alert_time.get(zone, 0)
LastAlert(map, zone) == IF map[zone] = None THEN 0 ELSE map[zone]

\* _can_alert: the test.
CanAlert(last, tnow) == ~(tnow - last < ALERT_COOLDOWN_SEC)

\* A _can_alert that stamps the zone on every attempt.
StampAfter_Refreshed(ok, stored, tnow) == tnow

\* _can_alert: `_last_alert_time[zone] = tnow` only when the alert is allowed.
StampAfter(ok, stored, tnow) == IF ok THEN tnow ELSE stored

\* alerts.sort(key=lambda a: a["distance"]): stable, closest first.
RECURSIVE InsertByDistance(_, _)
InsertByDistance(sorted, a) ==
    IF sorted = <<>> THEN <<a>>
    ELSE IF a.distance < Head(sorted).distance THEN <<a>> \o sorted
    ELSE <<Head(sorted)>> \o InsertByDistance(Tail(sorted), a)

RECURSIVE SortByDistance(_)
SortByDistance(alerts) ==
    IF alerts = <<>> THEN <<>>
    ELSE InsertByDistance(SortByDistance(SubSeq(alerts, 1, Len(alerts) - 1)),
                          alerts[Len(alerts)])

\* The loop of check_proximity over tracked_objects: the alerts in the order they are
\* appended, the map, the zones whose attempt was suppressed, and the zones that had
\* no entry in the map when their first object came.
RECURSIVE Scan(_, _, _, _)
Scan(objs, map, tnow, acc) ==
    IF objs = <<>> THEN [acc EXCEPT !.map = map]
    ELSE LET obj == Head(objs)
             zone == ZoneOf(obj)
         IN IF zone = NoZone THEN Scan(Tail(objs), map, tnow, acc)
            ELSE LET ok == CanAlert(LastAlert(map, zone), tnow)
                     alert == [level |-> zone[1], class_name |-> obj.class_name,
                               distance |-> RelativeToMeters(obj.depth)]
                 IN Scan(Tail(objs),
                         [map EXCEPT ![zone] = StampAfter(ok, map[zone], tnow)],
                         tnow,
                         [acc EXCEPT
                             !.alerts = IF ok THEN Append(@, alert) ELSE @,
                             !.suppressed = IF ok THEN @ ELSE @ \cup {zone},
                             !.fresh = IF map[zone] = None
                                           /\ zone \notin acc.suppressed
                                          THEN @ \cup {zone} ELSE @])

NoProximityCall == [called |-> FALSE, now |-> 0, fresh |-> {}, alerts |-> <<>>]

InitProximity ==
    /\ last_alert_time = [z \in Zones |-> None]
    /\ pnow \in InitialClocks
    /\ lastProx = NoProximityCall
    /\ alert_times = [z \in Zones |-> <<>>]
    /\ suppressed_at = [z \in Zones |-> None]
    /\ prox_calls = 0

\* check_proximity(tracked_objects), made when the monotonic clock has advanced by
\* elapsed since the call before it: the loop, then the sort.
check_proximity ==
    /\ UNCHANGED otherThanProximity
    /\ prox_calls < MaxProximityCalls
    /\ prox_calls' = prox_calls + 1
    /\ \E tracked_objects \in ProximityLists :
       \E elapsed \in IF prox_calls = 0 THEN {0} ELSE ClockSteps :
           LET tnow == pnow + elapsed
               scan == Scan(tracked_objects, last_alert_time, tnow,
                            [alerts |-> <<>>, suppressed |-> {}, fresh |-> {},
                             map |-> last_alert_time])
               alerts == SortByDistance(scan.alerts)
               emitted == {<<alerts[i].level, alerts[i].class_name>> : i \in DOMAIN alerts}
           IN /\ tnow <= MaxProximityTime
              /\ pnow' = tnow
              /\ last_alert_time' = scan.map
              /\ lastProx' = [called |-> TRUE, now |-> tnow, fresh |-> scan.fresh,
                              alerts |-> alerts]
              /\ alert_times' = [z \in Zones |->
                                    IF z \in emitted THEN Append(alert_times[z], tnow)
                                    ELSE alert_times[z]]
              /\ suppressed_at' = [z \in Zones |->
                                      IF z \in scan.suppressed THEN tnow
                                      ELSE suppressed_at[z]]

NextProximity == check_proximity

\* C33: for each key "{level}_{class_name}" any two proximity alerts emitted by
\* check_proximity, in the same call or in different calls, are at least
\* ALERT_COOLDOWN_SEC apart, and a suppressed attempt does not refresh the key's
\* timestamp: the timestamp is the time of the key's last emitted alert.
C33_AlertsCooldownApart ==
    /\ \A z \in Zones :
           /\ \A i \in 1..(Len(alert_times[z]) - 1) :
                  alert_times[z][i + 1] - alert_times[z][i] >= ALERT_COOLDOWN_SEC
           /\ last_alert_time[z] =
                  IF alert_times[z] = <<>> THEN None
                  ELSE alert_times[z][Len(alert_times[z])]
    /\ \A i, j \in DOMAIN lastProx.alerts :
           (/\ lastProx.alerts[i].level = lastProx.alerts[j].level
            /\ lastProx.alerts[i].class_name = lastProx.alerts[j].class_name) => i = j

\* A key alerted, an attempt for it was suppressed later, and it alerted again just
\* ALERT_COOLDOWN_SEC after the first alert.
C33_Witness ==
    \E z \in Zones :
        /\ Len(alert_times[z]) = 2
        /\ alert_times[z][2] - alert_times[z][1] = ALERT_COOLDOWN_SEC
        /\ suppressed_at[z] # None
        /\ alert_times[z][1] < suppressed_at[z]
        /\ suppressed_at[z] < alert_times[z][2]

\* C40: the first qualifying object for a "{level}_{class_name}" key that has no
\* earlier alert in the cooldown map always produces a proximity alert.
C40_FirstAlertAlwaysEmitted ==
    lastProx.called =>
        \A z \in lastProx.fresh :
            \E i \in DOMAIN lastProx.alerts :
                /\ lastProx.alerts[i].level = z[1]
                /\ lastProx.alerts[i].class_name = z[2]

(***************************************************************************)
(*                           SPECIFICATIONS                                *)
(***************************************************************************)

\* Values of the variables of a component a specification does not exercise.
IdleBridge == InitBridge

IdleOrch ==
    /\ InitOrch
    /\ bridge = "None"

IdleChat ==
    /\ InitChat
    /\ cfn = "chat"
    /\ creq = 2048
    /\ ccap = 2048

IdleTurn ==
    /\ InitTurn
    /\ max_calls = 0

IdleCore == IdleBridge /\ IdleOrch /\ IdleChat

(***************************************************************************)
(*                    BLUETOOTH AUTO-RECONNECT DAEMON                      *)
(***************************************************************************)

\* start_bt_auto_reconnect calls that create a thread, at most.
MaxBtStarts == 2

\* The n-th start that creates a daemon creates Event n and Thread n.
BtIds == 1..MaxBtStarts

\* Thread.is_alive(): started and _daemon has not returned.
IsAlive(t) == dpc[t] \notin {"unborn", "dead"}

Running == {t \in BtIds : IsAlive(t)}

Created == {t \in BtIds : dpc[t] # "unborn"}

NoBtStart == [returned |-> None, alive_before |-> FALSE, thread_before |-> None,
              stop_before |-> None, created |-> FALSE]

InitBluetooth ==
    /\ bt_reconnect_stop = None
    /\ bt_reconnect_thread = None
    /\ event_set = [e \in BtIds |-> FALSE]
    /\ dpc = [t \in BtIds |-> "unborn"]
    /\ dwait = [t \in BtIds |-> None]
    /\ lastStart = NoBtStart
    /\ outlived = [t \in BtIds |-> FALSE]

\* A stop check of _daemon: `_bt_reconnect_stop.is_set()` reads the module global, which
\* names the Event of the latest start.
StopCheck(t) == event_set[bt_reconnect_stop]

\* start_bt_auto_reconnect: return the global Event when the global Thread is alive;
\* otherwise bind a new Event, create and start a new Thread.
start_bt_auto_reconnect ==
    /\ LET alive == bt_reconnect_thread # None /\ IsAlive(bt_reconnect_thread)
           record == [NoBtStart EXCEPT !.alive_before = Running # {},
                                     !.thread_before = bt_reconnect_thread,
                                     !.stop_before = bt_reconnect_stop]
       IN IF alive
             THEN /\ lastStart' = [record EXCEPT !.returned = bt_reconnect_stop]
                  /\ UNCHANGED <<bt_reconnect_stop, bt_reconnect_thread, event_set, dpc,
                                 dwait, outlived>>
             ELSE /\ Created # BtIds
                  /\ LET n == Cardinality(Created) + 1
                     IN /\ bt_reconnect_stop' = n
                        /\ bt_reconnect_thread' = n
                        /\ dpc' = [dpc EXCEPT ![n] = "init"]
                        /\ lastStart' = [record EXCEPT !.returned = n, !.created = TRUE]
                  /\ UNCHANGED <<event_set, dwait, outlived>>
    /\ UNCHANGED otherThanBluetooth

\* stop_bt_auto_reconnect: set the global Event if there is one, forget the Thread.
stop_bt_auto_reconnect ==
    /\ event_set' = IF bt_reconnect_stop # None
                       THEN [event_set EXCEPT ![bt_reconnect_stop] = TRUE]
                       ELSE event_set
    /\ bt_reconnect_thread' = None
    /\ UNCHANGED <<bt_reconnect_stop, dpc, dwait, lastStart, outlived>>
    /\ UNCHANGED otherThanBluetooth

\* `was_connected = is_bluetooth_audio_connected()`
daemon_init(t) ==
    /\ dpc[t] = "init"
    /\ dpc' = [dpc EXCEPT ![t] = "while"]
    /\ UNCHANGED <<bt_reconnect_stop, bt_reconnect_thread, event_set, dwait, lastStart,
                   outlived>>
    /\ UNCHANGED otherThanBluetooth

\* `while not _bt_reconnect_stop.is_set():` and, when it goes on, the call of
\* `_bt_reconnect_stop.wait(...)` on the Event the global names at that moment.
daemon_while(t) ==
    /\ dpc[t] = "while"
    /\ IF StopCheck(t)
          THEN /\ dpc' = [dpc EXCEPT ![t] = "dead"]
               /\ UNCHANGED <<dwait, outlived>>
          ELSE /\ dpc' = [dpc EXCEPT ![t] = "wait"]
               /\ dwait' = [dwait EXCEPT ![t] = bt_reconnect_stop]
               /\ outlived' = [outlived EXCEPT ![t] = @ \/ event_set[t]]
    /\ UNCHANGED <<bt_reconnect_stop, bt_reconnect_thread, event_set, lastStart>>
    /\ UNCHANGED otherThanBluetooth

\* wait() returns: its Event was set, or the check interval has passed.
daemon_wait(t) ==
    /\ dpc[t] = "wait"
    /\ dpc' = [dpc EXCEPT ![t] = "check"]
    /\ dwait' = [dwait EXCEPT ![t] = None]
    /\ UNCHANGED <<bt_reconnect_stop, bt_reconnect_thread, event_set, lastStart, outlived>>
    /\ UNCHANGED otherThanBluetooth

\* `if _bt_reconnect_stop.is_set(): break`
daemon_check(t) ==
    /\ dpc[t] = "check"
    /\ IF StopCheck(t)
          THEN /\ dpc' = [dpc EXCEPT ![t] = "dead"]
               /\ UNCHANGED outlived
          ELSE /\ dpc' = [dpc EXCEPT ![t] = "poll"]
               /\ outlived' = [outlived EXCEPT ![t] = @ \/ event_set[t]]
    /\ UNCHANGED <<bt_reconnect_stop, bt_reconnect_thread, event_set, dwait, lastStart>>
    /\ UNCHANGED otherThanBluetooth

\* The rest of the loop body: connected (continue), or a reconnect attempt that
\* succeeds, or one that fails and waits the backoff delay on the global Event.
daemon_poll(t) ==
    /\ dpc[t] = "poll"
    /\ \E failed \in BOOLEAN :
           IF failed
              THEN /\ dpc' = [dpc EXCEPT ![t] = "wait_backoff"]
                   /\ dwait' = [dwait EXCEPT ![t] = bt_reconnect_stop]
              ELSE /\ dpc' = [dpc EXCEPT ![t] = "while"]
                   /\ UNCHANGED dwait
    /\ UNCHANGED <<bt_reconnect_stop, bt_reconnect_thread, event_set, lastStart, outlived>>
    /\ UNCHANGED otherThanBluetooth

\* `_bt_reconnect_stop.wait(delay)` returns.
daemon_backoff(t) ==
    /\ dpc[t] = "wait_backoff"
    /\ dpc' = [dpc EXCEPT ![t] = "while"]
    /\ dwait' = [dwait EXCEPT ![t] = None]
    /\ UNCHANGED <<bt_reconnect_stop, bt_reconnect_thread, event_set, lastStart, outlived>>
    /\ UNCHANGED otherThanBluetooth

NextBluetooth ==
    \/ start_bt_auto_reconnect
    \/ stop_bt_auto_reconnect
    \/ \E t \in BtIds : daemon_init(t)
    \/ \E t \in BtIds : daemon_while(t)
    \/ \E t \in BtIds : daemon_wait(t)
    \/ \E t \in BtIds : daemon_check(t)
    \/ \E t \in BtIds : daemon_poll(t)
    \/ \E t \in BtIds : daemon_backoff(t)

\* C39: at most one reconnect daemon loop is running at any time: at most one running
\* daemon has a stop event that is not set, a daemon whose stop event has been set
\* passes no further stop check, and a start while a daemon is alive starts no
\* second thread and returns the stop event there was.
C39_AtMostOneDaemonLoop ==
    /\ Cardinality({t \in Running : ~event_set[t]}) <= 1
    /\ \A t \in BtIds : ~outlived[t]
    /\ (lastStart.alive_before /\ ~event_set[lastStart.stop_before]) =>
           /\ ~lastStart.created
           /\ lastStart.returned = lastStart.stop_before

IdleAmbient ==
    /\ InitAmbient
    /\ anow = 0

IdleShared == InitShared

IdleTrajectory == InitTrajectory

IdleEgo == InitEgo

IdleReminders == InitReminders

IdleProximity ==
    /\ InitProximity
    /\ pnow = 5

IdleBluetooth == InitBluetooth

IdleExt ==
    IdleTurn /\ IdleAmbient /\ IdleShared /\ IdleTrajectory /\ IdleEgo /\ IdleReminders
    /\ IdleProximity /\ IdleBluetooth

InitSpecBridge ==
    /\ clients = {}
    /\ InitBridge /\ IdleOrch /\ IdleChat /\ IdleExt

SpecBridge == InitSpecBridge /\ [][NextBridge]_vars

InitSpecOrch ==
    /\ pc = "wait"
    /\ InitOrch /\ IdleBridge /\ IdleChat /\ IdleExt

SpecOrch == InitSpecOrch /\ [][NextOrch]_vars

InitSpecChat ==
    /\ cpc = "start"
    /\ InitChat /\ IdleBridge /\ IdleOrch /\ IdleExt

SpecChat == InitSpecChat /\ [][NextChat]_vars

InitSpecTurn ==
    /\ tpc = "start"
    /\ InitTurn /\ IdleCore /\ IdleAmbient /\ IdleShared /\ IdleTrajectory
    /\ IdleEgo /\ IdleReminders
    /\ IdleProximity /\ IdleBluetooth

\* The body of _run_one_turn_sync is straight-line blocking code: each step is taken.
SpecTurn == InitSpecTurn /\ [][NextTurn]_vars /\ WF_vars(NextTurn)

InitSpecAmbient ==
    /\ amb_state = "idle"
    /\ InitAmbient /\ IdleCore /\ IdleTurn /\ IdleShared /\ IdleTrajectory
    /\ IdleEgo /\ IdleReminders
    /\ IdleProximity /\ IdleBluetooth

SpecAmbient == InitSpecAmbient /\ [][NextAmbient]_vars

InitSpecShared ==
    /\ ncalls = 0
    /\ InitShared /\ IdleCore /\ IdleTurn /\ IdleAmbient /\ IdleTrajectory
    /\ IdleEgo /\ IdleReminders
    /\ IdleProximity /\ IdleBluetooth

SpecShared == InitSpecShared /\ [][NextShared]_vars

InitSpecCamera ==
    /\ nops = 0
    /\ \E opened \in BOOLEAN : InitSharedWith(opened)
    /\ IdleCore /\ IdleTurn /\ IdleAmbient /\ IdleTrajectory
    /\ IdleEgo /\ IdleReminders
    /\ IdleProximity /\ IdleBluetooth

InitSpecTrajectory ==
    /\ predict_calls = 0
    /\ InitTrajectory /\ IdleCore /\ IdleTurn /\ IdleAmbient /\ IdleShared
    /\ IdleEgo /\ IdleReminders
    /\ IdleProximity /\ IdleBluetooth

SpecTrajectory == InitSpecTrajectory /\ [][NextTrajectory]_vars

InitSpecEgo ==
    /\ ego_calls = 0
    /\ InitEgo /\ IdleCore /\ IdleTurn /\ IdleAmbient /\ IdleShared /\ IdleTrajectory
    /\ IdleReminders
    /\ IdleProximity /\ IdleBluetooth

SpecEgo == InitSpecEgo /\ [][NextEgo]_vars

InitSpecReminders ==
    /\ reminders = <<>>
    /\ InitReminders /\ IdleCore /\ IdleTurn /\ IdleAmbient /\ IdleShared /\ IdleTrajectory
    /\ IdleEgo
    /\ IdleProximity /\ IdleBluetooth

SpecReminders == InitSpecReminders /\ [][NextReminders]_vars

\* The driver calls return, and a thread that can take a step is scheduled.
SpecCamera == InitSpecCamera /\ [][NextCamera]_vars /\ WF_vars(ProgressCamera)

InitSpecProximity ==
    /\ prox_calls = 0
    /\ InitProximity /\ IdleCore /\ IdleTurn /\ IdleAmbient /\ IdleShared /\ IdleTrajectory
    /\ IdleEgo /\ IdleReminders /\ IdleBluetooth

SpecProximity == InitSpecProximity /\ [][NextProximity]_vars

InitSpecBluetooth ==
    /\ bt_reconnect_stop = None
    /\ InitBluetooth /\ IdleCore /\ IdleTurn /\ IdleAmbient /\ IdleShared /\ IdleTrajectory
    /\ IdleEgo /\ IdleReminders /\ IdleProximity

SpecBluetooth == InitSpecBluetooth /\ [][NextBluetooth]_vars

====
